---- MODULE Spec2Model ----
(***************************************************************************)
(* A model of the cloudtest execution engine                               *)
(* (pkg/commands/execution_context.go): the scheduler loop, the cluster    *)
(* instance lifecycle (starter, health monitor, destroy), the per-task     *)
(* supervisor (executeTask) and the report aggregation.                    *)
(*                                                                         *)
(* Atomicity.  Every action is one stretch of code of one goroutine        *)
(* between two points where it waits for the outside world (a provider     *)
(* call, the runner, a channel, a sleep).  One iteration of assignTasks'   *)
(* loop, checkClustersUsage and the handling of one event are each taken   *)
(* as one step of the main goroutine.                                      *)
(***************************************************************************)
EXTENDS Integers, Sequences, FiniteSets, TLC

\* ------------------------------------------------------------------ bounds

\* Largest RetryCount of a cluster group that Init configures.
MaxRetry == 1
\* Largest RetestConfig.RestartCount that Init configures.
MaxRestart == 2
\* Failures injected by the providers (Start, Destroy, CheckIsAlive) in a run.
MaxFaults == 2
\* The longest suite, the most instances of a group and the largest MinSuiteSize
\* of the configurations that split a suite.
MaxSuite == 10
MaxSplit == 3
MaxMinSuite == 2
\* The most cluster groups of a task, the most names of a ClusterEnv and the
\* most artifact directories of a task, where the environment is prepared.
MaxClusters == 3
MaxEnv == 3
MaxDirs == 2
\* The most entries of the Imports of a configuration.
MaxImports == 2
\* Capacity of the operation channel in the model (the program allocates 100).
ChanCap == 3

\* ------------------------------------------------------- program constants

\* clusterState
clusterAdded == "added"
clusterReady == "ready"
clusterBusy == "busy"
clusterStarting == "starting"
clusterStopping == "stopping"
clusterCrashed == "crashed"
clusterNotAvailable == "not-available"
clusterShutdown == "shutdown"

\* model.Status
StatusAdded == "added"
StatusSuccess == "success"
StatusFailed == "failed"
StatusTimeout == "timeout"
StatusSkipped == "skipped"
StatusSkippedSinceNoClusters == "skipped-no-clusters"
StatusRerunRequest == "rerun-request"

\* eventKind
eventTaskUpdate == "task-update"
eventClusterUpdate == "cluster-update"

\* ------------------------------------------------------------ small helpers

Range(s) == {s[k] : k \in 1..Len(s)}

Contains(s, x) == x \in Range(s)

Min(a, b) == IF a < b THEN a ELSE b

RECURSIVE SeqSum(_)
SeqSum(s) == IF s = <<>> THEN 0 ELSE Head(s) + SeqSum(Tail(s))

\* A map (Go map[string]...) is a set of <<key, value>> pairs with unique keys.
MapPut(m, k, v) == {p \in m : p[1] # k} \cup {<<k, v>>}

MapDelete(m, k) == {p \in m : p[1] # k}

\* ------------------------------------------------------------ task creation
\* The configuration cfg holds
\*   groups   the enabled cluster groups in ctx.clusters order:
\*            [name, n (instances), retry (RetryCount)]
\*   entries  ctx.tests in source order: [name, selector, clusterCount,
\*            concurrencyRetry, exec, hasSuite, suite, clusterEnv]
\*   count, restartCount, allowedRetests, patterns (non-empty), failSkip
\*   (RetestFailResult = "skip"), warmup (WarmupTimeout > 0), failedLimit,
\*   minSuiteSize, noStop.
\* During creation the state built so far is a record
\*   [task, queue, skipped, gtasks, estatus]
\* where estatus[e] is the Status field of entry e (createSingleTask writes it).

NewTestEntry(c, e) ==
    [name |-> c.entries[e].name, suite |-> c.entries[e].suite,
     hasSuite |-> c.entries[e].hasSuite, child |-> FALSE]

RECURSIVE splitLoop(_, _, _, _)
splitLoop(test, n, countPerInstance, i) ==
    LET L == Len(test.suite)
        nm == test.name \o <<i + 1>>
        child(tests) == [name |-> nm, suite |-> tests, hasSuite |-> TRUE, child |-> TRUE]
    IN  IF i >= n THEN <<>>
        ELSE IF L - (i + 1) * countPerInstance < countPerInstance \/ i + 1 = n
             THEN <<child(SubSeq(test.suite, i * countPerInstance + 1, L))>>
             ELSE <<child(SubSeq(test.suite, i * countPerInstance + 1,
                                 (i + 1) * countPerInstance))>>
                  \o splitLoop(test, n, countPerInstance, i + 1)

\* A countPerInstance that forgets MinSuiteSize.
CountPerInstanceNoMin(L, n, minSuiteSize) == L \div n

\* splitTest: countPerInstance, at least MinSuiteSize.
CountPerInstance(L, n, minSuiteSize) ==
    IF L \div n < minSuiteSize THEN minSuiteSize ELSE L \div n

splitTest(c, test, g) ==
    IF ~test.hasSuite THEN <<test>>
    ELSE splitLoop(test, c.groups[g].n,
                   CountPerInstance(Len(test.suite), c.groups[g].n, c.minSuiteSize), 0)

makeTaskClusterID(c, groupSeq) == [k \in 1..Len(groupSeq) |-> c.groups[groupSeq[k]].name]

CountReached(c, taskOrderIndex) == c.count > 0 /\ taskOrderIndex >= c.count

createSingleTask(c, cs, e, test, g, taskOrderIndex) ==
    LET id == Len(cs.task) + 1
        key == <<c.entries[e].selector, test.name>>
        t == [taskID |-> id - 1, e |-> e, name |-> test.name, key |-> key,
              status |-> cs.estatus[e], suite |-> test.suite,
              hasSuite |-> test.hasSuite,
              clusters |-> <<g>>, clusterInstances |-> <<>>, clusterTaskID |-> <<>>,
              executions |-> <<>>, skipMessage |-> FALSE, artifactDirectories |-> <<>>]
        put == [cs EXCEPT !.task = Append(@, t),
                          !.gtasks[g] = MapPut(@, key, id)]
    IN  IF CountReached(c, taskOrderIndex)
        THEN [put EXCEPT !.estatus[e] = IF test.child THEN @ ELSE StatusSkipped,
                         !.skipped = Append(@, id)]
        ELSE [put EXCEPT !.queue = Append(@, id)]

\* An updateTaskStatus that skips only a task without any cluster.
NotAllClustersNone(t, clusterCount) == Len(t.clusters) = 0

NotAllClusters(t, clusterCount) == Len(t.clusters) < clusterCount

updateTaskStatus(c, cs, id) ==
    IF NotAllClusters(cs.task[id], c.entries[cs.task[id].e].clusterCount)
    THEN [cs EXCEPT !.task[id].status = StatusSkipped]
    ELSE [cs EXCEPT !.task[id].clusterTaskID = makeTaskClusterID(c, cs.task[id].clusters)]

RECURSIVE updateAll(_, _, _)
updateAll(c, cs, ids) ==
    IF ids = <<>> THEN cs ELSE updateAll(c, updateTaskStatus(c, cs, Head(ids)), Tail(ids))

\* The first group of ctx.clusters with this name, 0 when there is none.
GroupNamed(c, name) ==
    LET m == {g \in 1..Len(c.groups) : c.groups[g].name = name}
    IN  IF m = {} THEN 0 ELSE CHOOSE g \in m : \A h \in m : g <= h

RECURSIVE createSplit(_, _, _, _, _, _, _)
\* createSingleTask for every child of splitTest; update tells whether
\* updateTaskStatus runs right after each (the single-cluster branch).
createSplit(c, cs, e, tests, g, taskOrderIndex, update) ==
    IF tests = <<>> THEN cs
    ELSE LET one == createSingleTask(c, cs, e, Head(tests), g, taskOrderIndex)
             upd == IF update THEN updateTaskStatus(c, one, Len(one.task)) ELSE one
         IN  createSplit(c, upd, e, Tail(tests), g, taskOrderIndex, update)

RECURSIVE appendCluster(_, _, _)
appendCluster(cs, ids, g) ==
    IF ids = <<>> THEN cs
    ELSE appendCluster(
             [cs EXCEPT !.task[Head(ids)].clusters = Append(@, g),
                        !.gtasks[g] = MapPut(@, cs.task[Head(ids)].key, Head(ids))],
             Tail(ids), g)

RECURSIVE createMulti(_, _, _, _, _, _)
\* The ClusterCount > 1 branch of createTask from selector position k on;
\* mine are the tasks created for this entry so far.
createMulti(c, cs, e, taskOrderIndex, k, mine) ==
    LET selector == c.entries[e].selector
    IN  IF k > Len(selector) THEN updateAll(c, cs, mine)
        ELSE LET g == GroupNamed(c, selector[k])
             IN  IF g = 0 THEN createMulti(c, cs, e, taskOrderIndex, k + 1, mine)
                 ELSE IF mine = <<>>
                 THEN LET tests == splitTest(c, NewTestEntry(c, e), g)
                          made == createSplit(c, cs, e, tests, g, taskOrderIndex, FALSE)
                          ids == [j \in 1..(Len(made.task) - Len(cs.task)) |-> Len(cs.task) + j]
                      IN  createMulti(c, made, e, taskOrderIndex, k + 1, ids)
                 ELSE createMulti(c, appendCluster(cs, mine, g), e, taskOrderIndex, k + 1, mine)

RECURSIVE createSingle(_, _, _, _, _)
\* The other branch of createTask: one task per matching group, from group g on.
createSingle(c, cs, e, taskOrderIndex, g) ==
    LET selector == c.entries[e].selector
    IN  IF g > Len(c.groups) THEN cs
        ELSE IF selector = <<>> \/ Contains(selector, c.groups[g].name)
        THEN createSingle(c,
                 createSplit(c, cs, e, splitTest(c, NewTestEntry(c, e), g), g,
                             taskOrderIndex, TRUE),
                 e, taskOrderIndex, g + 1)
        ELSE createSingle(c, cs, e, taskOrderIndex, g + 1)

createTask(c, cs, e, taskOrderIndex) ==
    IF c.entries[e].clusterCount > 1
    THEN createMulti(c, cs, e, taskOrderIndex, 1, <<>>)
    ELSE createSingle(c, cs, e, taskOrderIndex, 1)

RECURSIVE createCopies(_, _, _, _, _)
createCopies(c, cs, e, taskOrderIndex, j) ==
    IF j >= c.entries[e].concurrencyRetry THEN cs
    ELSE createCopies(c, createTask(c, cs, e, taskOrderIndex), e, taskOrderIndex, j + 1)

RECURSIVE createTasksFrom(_, _, _)
createTasksFrom(c, cs, e) ==
    IF e > Len(c.entries) THEN cs
    ELSE createTasksFrom(c,
             IF c.entries[e].concurrencyRetry > 0
             THEN createCopies(c, cs, e, e - 1, 0)
             ELSE createTask(c, cs, e, e - 1),
             e + 1)

createTasks(c) ==
    createTasksFrom(c,
        [task |-> <<>>, queue |-> <<>>, skipped |-> <<>>,
         gtasks |-> [g \in 1..Len(c.groups) |-> {}],
         estatus |-> [e \in 1..Len(c.entries) |-> StatusAdded]],
        1)

VARIABLES
    cfg,        \* the configuration of the run (never changes)
    task,       \* testTask and its TestEntry, by task number (taskIndex + 1)
    queue,      \* ctx.tasks: the pending tasks
    running,    \* ctx.running
    completed,  \* ctx.completed
    skipped,    \* ctx.skipped
    gtasks,     \* clustersGroup.tasks, by group index
    gcompleted, \* clustersGroup.completed, by group index
    inst,       \* clusterInstance fields, by instance number
    starters,   \* the starter goroutines (later health monitors), per instance
    sup,        \* the supervisor goroutine (executeTask) of each task
    aux,        \* the other goroutines: warmup re-queues, shutdown destroys
    opChan,     \* ctx.operationChannel
    termChan,   \* ctx.terminationChannel
    main,       \* the main goroutine: its position and locals
    failedTestsCount, \* ctx.failedTestsCount
    report,     \* the counts of the generated JUnit report, once generated
    env,        \* what the outside world did: provider calls, faults
    hist        \* history: dispatches and emitted updates, per task; per
                \* instance what happened since the last dispatch on it

vars ==
    <<cfg, task, queue, running, completed, skipped, gtasks, gcompleted, inst,
      starters, sup, aux, opChan, termChan, main, failedTestsCount, report,
      env, hist>>

\* -------------------------------------------------------- cluster instances

NumGroups == Len(cfg.groups)

RECURSIVE InstancesBefore(_, _)
InstancesBefore(c, g) == IF g <= 1 THEN 0 ELSE c.groups[g - 1].n + InstancesBefore(c, g - 1)

NumInstances(c) == InstancesBefore(c, Len(c.groups) + 1)

\* clustersGroup.instances of group g, in order, as instance numbers.
GroupInstances(c, g) == [k \in 1..c.groups[g].n |-> InstancesBefore(c, g) + k]

\* clusterInstance.group
GroupOf(c, i) == CHOOSE g \in 1..Len(c.groups) : i \in Range(GroupInstances(c, g))

RetryCount(i) == cfg.groups[GroupOf(cfg, i)].retry

Instances == 1..NumInstances(cfg)

Tasks == 1..Len(task)

DownStates == {clusterShutdown, clusterCrashed, clusterNotAvailable}

\* clusterInstance.isDownOr(states...)
isDownOr(state, states) == state \in (states \cup DownStates)

NewInstance ==
    [state |-> clusterAdded, startCount |-> 0, taskCancel |-> 0, cancelMonitor |-> 0,
     retestCounter |-> 0, runningExecution |-> ""]

\* A starter goroutine of startCluster, which goes on as the health monitor.
\*   pc: inc, start, destroy, force, decide, monitor, mdestroy, done
NewStarter == [pc |-> "inc", cancelled |-> FALSE, first |-> TRUE, destroyErr |-> FALSE]

DoneStarter == [pc |-> "done", cancelled |-> FALSE, first |-> FALSE, destroyErr |-> FALSE]

\* context.CancelFunc of the monitor that starter k of the instance created
\* (0: nil).
CancelMonitorOf(sts, k) == IF k = 0 THEN sts ELSE [sts EXCEPT ![k].cancelled = (sts[k].pc # "done")]

\* ------------------------------------------------------------- startCluster
\* The part of startCluster that runs in the caller; z is a record
\* [inst, starters, ok] threaded through the scheduler's loops.

\* A startCluster that gives up one start early.
NoRetriesLeftEarly(startCount, retry) == startCount >= retry

\* startCluster: ci.startCount > ci.group.config.RetryCount.
NoRetriesLeft(startCount, retry) == startCount > retry

startCluster(z, i) ==
    LET ci == z.inst[i]
    IN  IF ci.state # clusterAdded /\ ci.state # clusterCrashed
        THEN [z EXCEPT !.ok = TRUE]
        ELSE IF NoRetriesLeft(ci.startCount, RetryCount(i))
        THEN [z EXCEPT !.inst[i].state = clusterNotAvailable, !.ok = FALSE]
        ELSE [z EXCEPT !.inst[i].state = clusterStarting,
                       !.starters[i] = Append(@, NewStarter),
                       !.ok = TRUE]

\* ---------------------------------------------------- selectClustersForTask
\* z additionally carries use (clustersToUse), unavail (unavailableClusters)
\* and the flags of the group being looked at.

RECURSIVE selectInGroup(_, _, _)
selectInGroup(z, g, k) ==
    LET ids == GroupInstances(cfg, g)
    IN  IF k > Len(ids) \/ z.groupAssigned THEN z
        ELSE LET i == ids[k]
                 st == z.inst[i].state
             IN  IF st \in {clusterAdded, clusterCrashed}
                 THEN LET y == startCluster(z, i)
                      IN  selectInGroup(
                              [y EXCEPT !.groupAvailable = @ \/ y.ok], g, k + 1)
                 ELSE IF st = clusterReady
                 THEN selectInGroup(
                          [z EXCEPT !.groupAvailable = TRUE, !.groupAssigned = TRUE,
                                    !.use = Append(@, i)], g, k + 1)
                 ELSE IF st \in {clusterBusy, clusterStarting, clusterStopping}
                 THEN selectInGroup([z EXCEPT !.groupAvailable = TRUE], g, k + 1)
                 ELSE selectInGroup(z, g, k + 1)

RECURSIVE selectLoop(_, _, _)
selectLoop(z, clusters, k) ==
    IF k > Len(clusters) THEN z
    ELSE LET y == selectInGroup(
                      [z EXCEPT !.groupAssigned = FALSE, !.groupAvailable = FALSE],
                      clusters[k], 1)
         IN  selectLoop(
                 IF y.groupAvailable THEN y
                 ELSE [y EXCEPT !.unavail = Append(@, clusters[k])],
                 clusters, k + 1)

selectClustersForTask(t) ==
    selectLoop([inst |-> inst, starters |-> starters, ok |-> TRUE, use |-> <<>>,
                unavail |-> <<>>, groupAssigned |-> FALSE, groupAvailable |-> FALSE],
               task[t].clusters, 1)

\* --------------------------------------------------------------- goroutines

\* The supervisor goroutine of a task (executeTask).
\*   pc: idle, pre, run, rerun, rerunDestroy, alive, aliveDestroy
\*   k: the position in task.clusterInstances of its loops
\*   failed: the runner returned an error; dead: clusterNotAvailable
\*   matched: a line of the output of the failed run matches a restart pattern
\*   done: the context of the failed run was done when the runner returned
\*         (its deadline passed, or the cancel function was called)
\*   env: the environment of the runner (a string is a sequence of its pieces)
IdleSupervisor ==
    [pc |-> "idle", k |-> 0, failed |-> FALSE, dead |-> FALSE, cancelled |-> FALSE,
     matched |-> FALSE, done |-> FALSE, env |-> <<>>]

\* context.CancelFunc of the attempt of task t (0: nil).
CancelTask(sp, t) == IF t = 0 THEN sp ELSE [sp EXCEPT ![t].cancelled = (sp[t].pc = "run")]

IdNames == <<"i1", "i2", "i3", "i4", "i5", "i6">>

\* clusterInstance.id
InstanceID(i) == IdNames[i]

ClusterEvent(i) == [kind |-> eventClusterUpdate, id |-> i]

TaskEvent(t) == [kind |-> eventTaskUpdate, id |-> t]

\* A send on the operation channel blocks while the channel is full.
CanSend == Len(opChan) < ChanCap

\* ExecutionManager.AddFolder: the path of a new directory for an attempt of
\* the test on these instances, the n-th directory of the task.
AddFolder(clusterTaskID, name, n) == <<"dir">> \o clusterTaskID \o name \o <<n>>

\* startTask up to OpenFileTest: the cluster task id of the instances and the
\* artifact directory of the attempt.
WithFolder(tk, use) ==
    LET id == [k \in 1..Len(use) |-> InstanceID(use[k])]
    IN  [tk EXCEPT !.clusterTaskID = id,
                   !.artifactDirectories =
                       Append(@, AddFolder(id, tk.name, Len(tk.artifactDirectories) + 1))]

\* ClusterInstance.GetClusterConfig: the path of the instance's cluster config.
GetClusterConfig(i) == <<"config", InstanceID(i)>>

RECURSIVE SendAll(_, _)
\* Sends as many of the events as the channel takes; the rest stays to be sent.
SendAll(ch, evs) ==
    IF evs = <<>> \/ Len(ch) >= ChanCap THEN [ch |-> ch, rest |-> evs]
    ELSE SendAll(Append(ch, Head(evs)), Tail(evs))

Fault == env.faults < cfg.faults

WithFault == [env EXCEPT !.faults = @ + 1]

\* ------------------------------------------------------------------ history
\* What the claims need to remember of the run; nothing of the program reads it.
\*   cyc[i]: since the last dispatch on instance i ("used") a destroyCluster has
\*           stored crashed ("crashed") and after that a starter has called the
\*           provider's Start ("started"); "new" before the first dispatch
\*   rerun[i]: an attempt on i has ended as a rerun request since the last
\*           dispatch on i
\*   hit[i]: the task whose runner was running on instance i, with its
\*           TaskCancel installed, when a destroyCluster stored crashed on i
\*           (0: none); forgotten when that attempt ends
\*   matched[t]: for every entry of the Executions of task t, that the run
\*           failed with a line of its output matching a restart pattern
\*   before[i]: the execution whose Before hook has run on instance i since
\*           the provider's Start last returned nil for it ("": none)

\* startTask has dispatched task t on the instances use.
HistDispatch(t, use) ==
    [hist EXCEPT !.dispatched[t] = @ + 1,
                 !.cyc = [i \in DOMAIN @ |-> IF i \in Range(use) THEN "used" ELSE @[i]],
                 !.rerun = [i \in DOMAIN @ |-> IF i \in Range(use) THEN FALSE ELSE @[i]],
                 !.hit = [i \in DOMAIN @ |-> IF i \in Range(use) THEN 0 ELSE @[i]]]

\* updateTestExecution has ended an attempt of task t with this status.
HistEmit(t, status, matched) ==
    [hist EXCEPT !.emitted[t] = @ + 1,
                 !.matched[t] = Append(@, matched),
                 !.rerun = [i \in DOMAIN @ |->
                               IF status = StatusRerunRequest
                                  /\ i \in Range(task[t].clusterInstances)
                               THEN TRUE ELSE @[i]],
                 !.hit = [i \in DOMAIN @ |-> IF @[i] = t THEN 0 ELSE @[i]]]

\* destroyCluster has stored crashed on instance i.
HistCrashed(i) ==
    [hist EXCEPT !.cyc[i] = IF @ = "started" THEN @ ELSE "crashed",
                 !.hit[i] = IF inst[i].taskCancel # 0
                            THEN (IF sup[inst[i].taskCancel].pc = "run"
                                  THEN inst[i].taskCancel ELSE @)
                            ELSE @]

\* task.test.ExecutionConfig
ExecutionOf(t) == cfg.entries[task[t].e].exec

\* handleBeforeAfterScripts of task t has run the Before hook of its execution
\* on the instances that had another running execution, or none.
HistHooks(t) ==
    [hist EXCEPT !.before = [i \in DOMAIN @ |->
                                IF i \in Range(task[t].clusterInstances)
                                   /\ inst[i].runningExecution # ExecutionOf(t)
                                THEN ExecutionOf(t) ELSE @[i]]]

\* The provider's Start has returned nil for instance i: a new cluster.
HistStarted(i) == [hist EXCEPT !.before[i] = ""]

\* A starter goroutine of instance i calls the provider's Start.
HistStart(i) == [hist EXCEPT !.cyc[i] = IF @ = "crashed" THEN "started" ELSE @]

\* --------------------------------------------------------------------- Init

Entry(name, selector, clusterCount) ==
    [name |-> <<name>>, selector |-> selector, clusterCount |-> clusterCount,
     concurrencyRetry |-> 0, exec |-> "e1", hasSuite |-> FALSE, suite |-> <<>>,
     clusterEnv |-> <<>>]

Group(name, n, retry) == [name |-> name, n |-> n, retry |-> retry]

BaseConfig ==
    [groups |-> <<Group("A", 1, 0)>>,
     entries |-> <<Entry("T1", <<>>, 1), Entry("T2", <<>>, 1)>>,
     count |-> -1, restartCount |-> 0, allowedRetests |-> 0, patterns |-> FALSE,
     failSkip |-> FALSE, warmup |-> FALSE, failedLimit |-> 0, minSuiteSize |-> 0,
     noStop |-> FALSE, faults |-> MaxFaults, signals |-> 0]

\* One group of one instance and no retest configuration: one test, with every
\* fault the budget allows when the group has the most restarts, or two tests
\* and one fault.
LifecycleConfigs ==
    {[BaseConfig EXCEPT !.groups = <<Group("A", 1, r)>>,
                        !.entries = <<Entry("T1", <<>>, 1)>>,
                        !.faults = IF r = MaxRetry THEN MaxFaults ELSE Min(MaxFaults, 1)] :
        r \in 0..MaxRetry}
    \cup
    {[BaseConfig EXCEPT !.groups = <<Group("A", 1, Min(MaxRetry, 1))>>,
                        !.faults = Min(MaxFaults, 1)]}

\* One group of one instance, one test, and a retest configuration; without
\* patterns the rest of it has no effect.
RetestConfigs ==
    {[BaseConfig EXCEPT !.groups = <<Group("A", 1, Min(MaxRetry, 1))>>,
                        !.entries = <<Entry("T1", <<>>, 1)>>,
                        !.patterns = TRUE, !.restartCount = rc, !.allowedRetests = ar,
                        !.failSkip = fs, !.warmup = w, !.faults = Min(MaxFaults, 1)] :
        rc \in 0..MaxRestart, ar \in 1..2, fs \in BOOLEAN, w \in BOOLEAN}
    \cup
    {[BaseConfig EXCEPT !.groups = <<Group("A", 1, Min(MaxRetry, 1))>>,
                        !.entries = <<Entry("T1", <<>>, 1)>>,
                        !.restartCount = MaxRestart, !.allowedRetests = 1,
                        !.faults = Min(MaxFaults, 1)]}

\* Two groups of one instance and a test that needs two clusters, beside one
\* that runs on any group; selectors may name a group that does not exist.
MultiConfigs ==
    {[BaseConfig EXCEPT !.groups = <<Group("A", 1, 0), Group("B", 1, 0)>>,
                        !.entries = <<Entry("T1", sel, 2), Entry("T2", <<"B">>, 1)>>,
                        !.faults = Min(MaxFaults, 1)] :
        sel \in {<<"A", "B">>, <<"A", "C">>, <<"C", "B">>, <<"A", "A">>, <<"A">>,
                 <<"C">>}}
    \cup
    {[BaseConfig EXCEPT !.groups = <<Group("A", 1, 0), Group("B", 1, 0)>>,
                        !.entries = <<Entry("T1", sel, 1), Entry("T2", <<"B">>, 1)>>,
                        !.faults = Min(MaxFaults, 1)] :
        sel \in {<<"A">>, <<"C">>}}

\* The same with a cap on the number of tests to run.
CountConfigs ==
    {[BaseConfig EXCEPT !.groups = <<Group("A", 1, 0), Group("B", 1, 0)>>,
                        !.entries = <<Entry("T1", sel, 1), Entry("T2", <<"B">>, 1)>>,
                        !.count = 1, !.faults = Min(MaxFaults, 1)] :
        sel \in {<<"A", "B">>, <<"C">>}}

\* A failed-tests limit or a termination request ends the loop early.
TerminationConfigs ==
    {[BaseConfig EXCEPT !.groups = <<Group("A", 1, 0)>>,
                        !.failedLimit = l, !.signals = 1 - l, !.noStop = ns,
                        !.faults = Min(MaxFaults, 1)] :
        l \in 0..1, ns \in BOOLEAN}

\* One test with ConcurrencyRetry copies, which share their key.
CopiesConfigs ==
    {[BaseConfig EXCEPT !.entries = <<[Entry("T1", <<>>, 1) EXCEPT !.concurrencyRetry = 2]>>,
                        !.faults = f] : f \in 0..Min(MaxFaults, 1)}

\* Two tests on one instance, with restart patterns and a warmup timeout: one
\* test is pending while the other is re-queued.
WarmupConfigs ==
    {[BaseConfig EXCEPT !.groups = <<Group("A", 1, 0)>>,
                        !.patterns = TRUE, !.restartCount = MaxRestart,
                        !.allowedRetests = 2, !.warmup = TRUE, !.faults = 0]}

Configs ==
    LifecycleConfigs \cup RetestConfigs \cup MultiConfigs \cup CountConfigs
        \cup TerminationConfigs \cup CopiesConfigs \cup WarmupConfigs

InitOf(c) ==
    LET cs == createTasks(c)
    IN  /\ cfg = c
        /\ task = cs.task
        /\ queue = cs.queue
        /\ running = {}
        /\ completed = <<>>
        /\ skipped = cs.skipped
        /\ gtasks = cs.gtasks
        /\ gcompleted = [g \in 1..Len(c.groups) |-> {}]
        /\ inst = [i \in 1..NumInstances(c) |-> NewInstance]
        /\ starters = [i \in 1..NumInstances(c) |-> <<>>]
        /\ sup = [t \in 1..Len(cs.task) |-> IdleSupervisor]
        /\ aux = [warmup |-> [t \in 1..Len(cs.task) |-> <<>>],
                  warming |-> {},
                  shut |-> [i \in 1..NumInstances(c) |-> "none"]]
        /\ opChan = <<>>
        /\ termChan = <<>>
        /\ main = [pc |-> "assign", snapshot |-> <<>>, idx |-> 0, newTasks |-> <<>>,
                   sendq |-> <<>>, err |-> FALSE, exit |-> -1, cause |-> "none"]
        /\ failedTestsCount = 0
        /\ report = [generated |-> FALSE]
        /\ env = [faults |-> 0, signals |-> 0,
                  starts |-> [i \in 1..NumInstances(c) |-> 0],
                  failedStarts |-> [i \in 1..NumInstances(c) |-> 0],
                  destroys |-> [i \in 1..NumInstances(c) |-> 0]]
        /\ hist = [dispatched |-> [t \in 1..Len(cs.task) |-> 0],
                   emitted |-> [t \in 1..Len(cs.task) |-> 0],
                   matched |-> [t \in 1..Len(cs.task) |-> <<>>],
                   cyc |-> [i \in 1..NumInstances(c) |-> "new"],
                   rerun |-> [i \in 1..NumInstances(c) |-> FALSE],
                   hit |-> [i \in 1..NumInstances(c) |-> 0],
                   before |-> [i \in 1..NumInstances(c) |-> ""]]

Init == \E c \in Configs : InitOf(c)

\* ------------------------------------------------------- the main goroutine

MainIdle == [main EXCEPT !.snapshot = <<>>, !.idx = 0, !.newTasks = <<>>, !.sendq = <<>>]

\* performExecution: the loop ends when nothing is pending and nothing runs.
LoopCheck(q, r) == IF q = <<>> /\ r = {} THEN "report" ELSE "assign"

\* assignTasks up to its loop: nothing to do without tasks, else the queue is
\* snapshotted.
MainAssign ==
    /\ main.pc = "assign"
    /\ main' = IF queue = <<>> THEN [MainIdle EXCEPT !.pc = "usage"]
               ELSE [main EXCEPT !.pc = "iter", !.snapshot = queue, !.idx = 1,
                                 !.newTasks = <<>>]
    /\ UNCHANGED <<cfg, task, queue, running, completed, skipped, gtasks, gcompleted,
                   inst, starters, sup, aux, opChan, termChan, failedTestsCount,
                   report, env, hist>>

\* The step of the main goroutine after one iteration of assignTasks' loop:
\* the next iteration, or ctx.tasks = newTasks after the last.
AfterIter(newTasks) ==
    IF main.idx >= Len(main.snapshot)
    THEN [MainIdle EXCEPT !.pc = "usage"]
    ELSE [main EXCEPT !.idx = @ + 1, !.newTasks = newTasks]

QueueAfterIter(newTasks) == IF main.idx >= Len(main.snapshot) THEN newTasks ELSE queue

\* skipTaskDueUnavailableClusters, on the group maps.
RECURSIVE skipInGroups(_, _, _, _)
skipInGroups(m, clusters, key, t) ==
    IF clusters = <<>> THEN m
    ELSE skipInGroups(
             [m EXCEPT !.tasks[Head(clusters)] = MapDelete(@, key),
                       !.completed[Head(clusters)] = MapPut(@, key, t)],
             Tail(clusters), key, t)

\* A startTask that forgets to mark the instances busy.
MarkBusyNone(ins, use) == ins

\* startTask marks every instance it was given busy.
MarkBusy(ins, use) ==
    [i \in DOMAIN ins |-> IF i \in Range(use) THEN [ins[i] EXCEPT !.state = clusterBusy]
                          ELSE ins[i]]

\* A canRun that is content with one assigned cluster.
CanRunSome(use, clusters) == Len(use) >= 1

\* assignTasks: canRun, every group of the task assigned an instance.
CanRun(use, clusters) == Len(use) = Len(clusters)

\* One iteration of the loop of assignTasks, for the task at main.idx.
MainAssignIter ==
    /\ main.pc = "iter"
    /\ LET t == main.snapshot[main.idx]
           z == selectClustersForTask(t)
       IN  IF task[t].status = StatusSkipped
           THEN /\ main' = AfterIter(main.newTasks)
                /\ queue' = QueueAfterIter(main.newTasks)
                /\ UNCHANGED <<task, running, completed, gtasks, gcompleted, inst,
                               starters, sup, env, hist>>
           ELSE IF z.unavail # <<>>
           THEN LET m == skipInGroups([tasks |-> gtasks, completed |-> gcompleted],
                                      task[t].clusters, task[t].key, t)
                IN  /\ task' = [task EXCEPT ![t].status = StatusSkippedSinceNoClusters]
                    /\ gtasks' = m.tasks
                    /\ gcompleted' = m.completed
                    /\ completed' = Append(completed, t)
                    /\ inst' = z.inst
                    /\ starters' = z.starters
                    /\ main' = AfterIter(main.newTasks)
                    /\ queue' = QueueAfterIter(main.newTasks)
                    /\ UNCHANGED <<running, sup, env, hist>>
           ELSE IF CanRun(z.use, task[t].clusters)
           THEN /\ inst' = MarkBusy(z.inst, z.use)
                /\ starters' = z.starters
                /\ main' = AfterIter(main.newTasks)
                /\ queue' = QueueAfterIter(main.newTasks)
                /\ UNCHANGED <<completed, gtasks, gcompleted>>
                /\ \/ \* startTask returns nil: the supervisor is spawned
                      /\ task' = [task EXCEPT ![t] = [WithFolder(@, z.use) EXCEPT
                                                          !.clusterInstances = z.use]]
                      /\ sup' = [sup EXCEPT ![t] = [IdleSupervisor EXCEPT !.pc = "pre"]]
                      /\ running' = running \cup {t}
                      /\ hist' = HistDispatch(t, z.use)
                      /\ UNCHANGED env
                   \/ \* OpenFileTest or GetClusterConfig fails: startTask returns it
                      /\ Fault
                      /\ env' = WithFault
                      /\ task' = [task EXCEPT ![t] = WithFolder(@, z.use)]
                      /\ UNCHANGED <<running, sup, hist>>
           ELSE /\ inst' = z.inst
                /\ starters' = z.starters
                /\ main' = AfterIter(Append(main.newTasks, t))
                /\ queue' = QueueAfterIter(Append(main.newTasks, t))
                /\ UNCHANGED <<task, running, completed, gtasks, gcompleted, sup, env, hist>>
    /\ UNCHANGED <<cfg, skipped, aux, opChan, termChan, failedTestsCount, report>>

\* ----------------------------------------------------------- destroyCluster

\* A guard of destroyCluster that only spares an instance that is starting.
destroySparesStarting(state) == state = clusterStarting

\* The guard of destroyCluster: it returns nil at once.
destroyReturnsAtOnce(state) == isDownOr(state, {clusterStarting})

\* destroyCluster(ci, sendUpdate, fork) from its call to the point where it
\* returns or waits for the provider's Destroy.  z holds inst, starters and
\* env; the result adds returned (it has returned), err (it returned an error
\* and not nil) and sent (the events it has sent).  With fork the provider's Destroy runs in a goroutine
\* of its own, which touches nothing of the model but the count of calls.
destroyCluster(z, i, sendUpdate, fork) ==
    LET r == [inst |-> z.inst, starters |-> z.starters, env |-> z.env,
              returned |-> TRUE, err |-> FALSE, sent |-> <<>>]
        stopping == [r EXCEPT !.inst[i].state = clusterStopping,
                              !.starters[i] = CancelMonitorOf(@, z.inst[i].cancelMonitor)]
    IN  IF destroyReturnsAtOnce(z.inst[i].state) THEN r
        ELSE IF fork THEN [stopping EXCEPT !.env.destroys[i] = @ + 1]
        ELSE [stopping EXCEPT !.returned = FALSE]

\* What the goroutines hand to destroyCluster.
Shared == [inst |-> inst, starters |-> starters, env |-> env]

\* ------------------------------------------------------- checkClustersUsage

UpInstances(ins, g) ==
    {i \in Range(GroupInstances(cfg, g)) : ~isDownOr(ins[i].state, {})}

usageSkips(state) == isDownOr(state, {clusterBusy})

RECURSIVE usageInstances(_, _)
usageInstances(z, ids) ==
    IF ids = <<>> THEN z
    ELSE LET i == Head(ids)
             st == z.inst[i].state
             d == destroyCluster(z, i, FALSE, TRUE)
         IN  usageInstances(
                 IF usageSkips(st) THEN z
                 ELSE [d EXCEPT !.inst[i].state = clusterShutdown],
                 Tail(ids))

RECURSIVE usageGroups(_, _)
usageGroups(z, g) ==
    IF g > NumGroups THEN z
    ELSE usageGroups(
             IF gtasks[g] = {} /\ UpInstances(z.inst, g) # {}
             THEN usageInstances(z, GroupInstances(cfg, g))
             ELSE z,
             g + 1)

MainUsage ==
    /\ main.pc = "usage"
    /\ LET z == usageGroups([inst |-> inst, starters |-> starters, env |-> env], 1)
       IN  /\ inst' = z.inst
           /\ starters' = z.starters
           /\ env' = z.env
    /\ main' = [main EXCEPT !.pc = "poll"]
    /\ UNCHANGED <<cfg, task, queue, running, completed, skipped, gtasks, gcompleted,
                   sup, aux, opChan, termChan, failedTestsCount, report, hist>>

\* ---------------------------------------------------------------- pollEvents

performClusterUpdate(sp, i) ==
    IF inst[i].taskCancel # 0 /\ inst[i].state = clusterCrashed
    THEN CancelTask(sp, inst[i].taskCancel)
    ELSE sp

MainPollCluster ==
    /\ main.pc = "poll"
    /\ opChan # <<>>
    /\ Head(opChan).kind = eventClusterUpdate
    /\ opChan' = Tail(opChan)
    /\ sup' = performClusterUpdate(sup, Head(opChan).id)
    /\ main' = [main EXCEPT !.pc = LoopCheck(queue, running)]
    /\ UNCHANGED <<cfg, task, queue, running, completed, skipped, gtasks, gcompleted,
                   inst, starters, aux, termChan, failedTestsCount, report, env, hist>>

\* A makeInstancesReady that clears the cancel function but leaves the state.
makeInstancesReadyKeepsState(ins, instances) ==
    [i \in DOMAIN ins |->
        IF i \in Range(instances) THEN [ins[i] EXCEPT !.taskCancel = 0] ELSE ins[i]]

\* makeInstancesReady: busy instances become ready, the cancel function goes.
makeInstancesReady(ins, instances) ==
    [i \in DOMAIN ins |->
        IF i \in Range(instances)
        THEN [ins[i] EXCEPT !.state = IF @ = clusterBusy THEN clusterReady ELSE @,
                            !.taskCancel = 0]
        ELSE ins[i]]

ClusterEvents(instances) == [k \in 1..Len(instances) |-> ClusterEvent(instances[k])]

\* processTaskUpdate: the task is finalized on success and failed.
IsFinal(status) == status \in {StatusSuccess, StatusFailed}

RECURSIVE completeInGroups(_, _, _, _, _)
completeInGroups(m, clusters, key, t, ind) ==
    IF ind > Len(clusters) THEN m
    ELSE completeInGroups(
             [m EXCEPT !.tasks[clusters[ind]] = MapDelete(@, key),
                       !.completed[clusters[ind]] =
                           IF ind = 1 THEN MapPut(@, key, t) ELSE @],
             clusters, key, t, ind + 1)

LimitReached(count) == cfg.failedLimit # 0 /\ count = cfg.failedLimit

\* processTaskUpdate with completeTask.
MainPollTaskComplete ==
    /\ main.pc = "poll"
    /\ opChan # <<>>
    /\ Head(opChan).kind = eventTaskUpdate
    /\ LET t == Head(opChan).id
           m == completeInGroups([tasks |-> gtasks, completed |-> gcompleted],
                                 task[t].clusters, task[t].key, t, 1)
           n == IF task[t].status = StatusFailed THEN failedTestsCount + 1
                ELSE failedTestsCount
       IN  /\ IsFinal(task[t].status)
           /\ gtasks' = m.tasks
           /\ gcompleted' = m.completed
           /\ running' = running \ {t}
           /\ completed' = Append(completed, t)
           /\ failedTestsCount' = n
           /\ termChan' = IF LimitReached(n) THEN Append(termChan, "limit") ELSE termChan
           /\ inst' = makeInstancesReady(inst, task[t].clusterInstances)
           /\ main' = [main EXCEPT !.pc = LoopCheck(queue, running \ {t})]
    /\ opChan' = Tail(opChan)
    /\ UNCHANGED <<cfg, task, queue, skipped, starters, sup, aux, report, env, hist>>

NeedsWarmup(status) == status = StatusRerunRequest /\ cfg.warmup

\* processTaskUpdate with rescheduleTask in the main goroutine.  It sends the
\* cluster updates itself; when the channel is full it blocks at "resend", and
\* since only the main goroutine receives from the channel it stays there.
MainPollTaskReschedule ==
    /\ main.pc = "poll"
    /\ opChan # <<>>
    /\ Head(opChan).kind = eventTaskUpdate
    /\ LET t == Head(opChan).id
           sent == SendAll(Tail(opChan), ClusterEvents(task[t].clusterInstances))
       IN  /\ ~IsFinal(task[t].status)
           /\ ~NeedsWarmup(task[t].status)
           /\ inst' = makeInstancesReady(inst, task[t].clusterInstances)
           /\ running' = running \ {t}
           /\ queue' = Append(queue, t)
           /\ opChan' = sent.ch
           /\ main' = IF sent.rest = <<>> THEN [main EXCEPT !.pc = "assign"]
                      ELSE [main EXCEPT !.pc = "resend", !.sendq = sent.rest]
    /\ UNCHANGED <<cfg, task, completed, skipped, gtasks, gcompleted, starters, sup,
                   aux, termChan, failedTestsCount, report, env, hist>>

\* processTaskUpdate of a rerun request with a warmup timeout: a goroutine
\* re-queues the task later.
MainPollTaskWarmup ==
    /\ main.pc = "poll"
    /\ opChan # <<>>
    /\ Head(opChan).kind = eventTaskUpdate
    /\ LET t == Head(opChan).id
       IN  /\ NeedsWarmup(task[t].status)
           /\ aux' = [aux EXCEPT !.warming = @ \cup {t}]
    /\ opChan' = Tail(opChan)
    /\ main' = [main EXCEPT !.pc = LoopCheck(queue, running)]
    /\ UNCHANGED <<cfg, task, queue, running, completed, skipped, gtasks, gcompleted,
                   inst, starters, sup, termChan, failedTestsCount, report, env, hist>>

\* The warmup goroutine: rescheduleTask up to sendClustersUpdate.
WarmupReschedule(t) ==
    /\ t \in aux.warming
    /\ inst' = makeInstancesReady(inst, task[t].clusterInstances)
    /\ running' = running \ {t}
    /\ queue' = Append(queue, t)
    /\ aux' = [aux EXCEPT !.warming = @ \ {t},
                          !.warmup[t] = ClusterEvents(task[t].clusterInstances)]
    /\ UNCHANGED <<cfg, task, completed, skipped, gtasks, gcompleted, starters, sup,
                   opChan, termChan, main, failedTestsCount, report, env, hist>>

\* The warmup goroutine: sendClustersUpdate, one send at a time.
WarmupSend(t) ==
    /\ aux.warmup[t] # <<>>
    /\ CanSend
    /\ opChan' = Append(opChan, Head(aux.warmup[t]))
    /\ aux' = [aux EXCEPT !.warmup[t] = Tail(@)]
    /\ UNCHANGED <<cfg, task, queue, running, completed, skipped, gtasks, gcompleted,
                   inst, starters, sup, termChan, main, failedTestsCount, report, env,
                   hist>>

\* The statistics ticker wakes the loop.
MainPollTick ==
    /\ main.pc = "poll"
    /\ main' = [main EXCEPT !.pc = LoopCheck(queue, running)]
    /\ UNCHANGED <<cfg, task, queue, running, completed, skipped, gtasks, gcompleted,
                   inst, starters, sup, aux, opChan, termChan, failedTestsCount,
                   report, env, hist>>

\* An error on the termination channel ends the loop.
MainPollTermination ==
    /\ main.pc = "poll"
    /\ termChan # <<>>
    /\ termChan' = Tail(termChan)
    /\ main' = [main EXCEPT !.pc = "report", !.err = TRUE]
    /\ UNCHANGED <<cfg, task, queue, running, completed, skipped, gtasks, gcompleted,
                   inst, starters, sup, aux, opChan, failedTestsCount, report, env,
                   hist>>

\* An OS signal or the global deadline ends the loop.
MainPollSignal ==
    /\ main.pc = "poll"
    /\ env.signals < cfg.signals
    /\ env' = [env EXCEPT !.signals = @ + 1]
    /\ main' = [main EXCEPT !.pc = "report", !.err = TRUE]
    /\ UNCHANGED <<cfg, task, queue, running, completed, skipped, gtasks, gcompleted,
                   inst, starters, sup, aux, opChan, termChan, failedTestsCount,
                   report, hist>>

\* ------------------------------------------- the starter and health monitor

StartCountAfterInc(n) == n + 1

\* The starter takes the lock and counts the start, then calls Start.
StarterInc(i, k) ==
    /\ starters[i][k].pc = "inc"
    /\ inst' = [inst EXCEPT ![i].startCount = StartCountAfterInc(@)]
    /\ starters' = [starters EXCEPT ![i][k].pc = "start"]
    /\ env' = [env EXCEPT !.starts[i] = @ + 1]
    /\ hist' = HistStart(i)
    /\ UNCHANGED <<cfg, task, queue, running, completed, skipped, gtasks, gcompleted,
                   sup, aux, opChan, termChan, main, failedTestsCount, report>>

\* The end of the starter goroutine: the monitor unless the state is crashed.
StartsMonitor(state) == state # clusterCrashed

\* The provider's Start succeeds.
StarterStartOk(i, k) ==
    /\ starters[i][k].pc = "start"
    /\ IF StartsMonitor(inst[i].state)
       THEN /\ inst' = [inst EXCEPT ![i].cancelMonitor = k]
            /\ starters' = [starters EXCEPT ![i][k].pc = "monitor"]
            /\ UNCHANGED opChan
       ELSE /\ CanSend
            /\ opChan' = Append(opChan, ClusterEvent(i))
            /\ starters' = [starters EXCEPT ![i][k] = DoneStarter]
            /\ UNCHANGED inst
    /\ hist' = HistStarted(i)
    /\ UNCHANGED <<cfg, task, queue, running, completed, skipped, gtasks, gcompleted,
                   sup, aux, termChan, main, failedTestsCount, report, env>>

\* The provider's Start fails: stopping, and destroyCluster up to Destroy.
StarterStartFail(i, k) ==
    /\ starters[i][k].pc = "start"
    /\ Fault
    /\ env' = [WithFault EXCEPT !.failedStarts[i] = @ + 1]
    /\ LET z == destroyCluster([Shared EXCEPT !.inst[i].state = clusterStopping],
                               i, TRUE, FALSE)
       IN  /\ inst' = z.inst
           /\ starters' = [z.starters EXCEPT ![i][k].pc = "destroy"]
    /\ UNCHANGED <<cfg, task, queue, running, completed, skipped, gtasks, gcompleted,
                   sup, aux, opChan, termChan, main, failedTestsCount, report, hist>>

\* destroyCluster of the starter from Destroy on; failed is Destroy's result.
StarterDestroyEnds(i, k, failed) ==
    /\ starters[i][k].pc = "destroy"
    /\ CanSend
    /\ inst' = [inst EXCEPT ![i].state = clusterCrashed]
    /\ opChan' = Append(opChan, ClusterEvent(i))
    /\ starters' = [starters EXCEPT ![i][k].pc = IF failed THEN "force" ELSE "decide"]
    /\ hist' = HistCrashed(i)
    /\ UNCHANGED <<cfg, task, queue, running, completed, skipped, gtasks, gcompleted,
                   sup, aux, termChan, main, failedTestsCount, report>>

StarterDestroyOk(i, k) ==
    /\ StarterDestroyEnds(i, k, FALSE)
    /\ env' = [env EXCEPT !.destroys[i] = @ + 1]

StarterDestroyFail(i, k) ==
    /\ StarterDestroyEnds(i, k, TRUE)
    /\ Fault
    /\ env' = [WithFault EXCEPT !.destroys[i] = @ + 1]

ForcedStartCount(retry) == retry + 1

\* Start and Destroy both failed: no more retries for this instance.
StarterForce(i, k) ==
    /\ starters[i][k].pc = "force"
    /\ inst' = [inst EXCEPT ![i].startCount = ForcedStartCount(RetryCount(i))]
    /\ starters' = [starters EXCEPT ![i][k].pc = "decide"]
    /\ UNCHANGED <<cfg, task, queue, running, completed, skipped, gtasks, gcompleted,
                   sup, aux, opChan, termChan, main, failedTestsCount, report, env,
                   hist>>

\* After a failed start: the monitor unless the state is crashed.
StarterDecide(i, k) ==
    /\ starters[i][k].pc = "decide"
    /\ IF StartsMonitor(inst[i].state)
       THEN /\ inst' = [inst EXCEPT ![i].cancelMonitor = k]
            /\ starters' = [starters EXCEPT ![i][k].pc = "monitor"]
            /\ UNCHANGED opChan
       ELSE /\ CanSend
            /\ opChan' = Append(opChan, ClusterEvent(i))
            /\ starters' = [starters EXCEPT ![i][k] = DoneStarter]
            /\ UNCHANGED inst
    /\ UNCHANGED <<cfg, task, queue, running, completed, skipped, gtasks, gcompleted,
                   sup, aux, termChan, main, failedTestsCount, report, env, hist>>

\* monitorCluster: the first check succeeds, the instance becomes ready.  A
\* monitor cancelled meanwhile returns from its select right after.
MonitorFirstCheck(i, k) ==
    /\ starters[i][k].pc = "monitor"
    /\ starters[i][k].first
    /\ CanSend
    /\ inst' = [inst EXCEPT ![i].state = clusterReady]
    /\ opChan' = Append(opChan, ClusterEvent(i))
    /\ starters' = [starters EXCEPT ![i][k] =
                        IF @.cancelled THEN DoneStarter ELSE [@ EXCEPT !.first = FALSE]]
    /\ UNCHANGED <<cfg, task, queue, running, completed, skipped, gtasks, gcompleted,
                   sup, aux, termChan, main, failedTestsCount, report, env, hist>>

\* monitorCluster: the monitor was cancelled and returns from its select.
MonitorCancelled(i, k) ==
    /\ starters[i][k].pc = "monitor"
    /\ ~starters[i][k].first
    /\ starters[i][k].cancelled
    /\ starters' = [starters EXCEPT ![i][k] = DoneStarter]
    /\ UNCHANGED <<cfg, task, queue, running, completed, skipped, gtasks, gcompleted,
                   inst, sup, aux, opChan, termChan, main, failedTestsCount, report,
                   env, hist>>

\* monitorCluster: CheckIsAlive fails, destroyCluster up to Destroy.
MonitorCheckFails(i, k) ==
    /\ starters[i][k].pc = "monitor"
    /\ Fault
    /\ env' = WithFault
    /\ LET z == destroyCluster(Shared, i, TRUE, FALSE)
       IN  /\ inst' = z.inst
           /\ starters' = IF z.returned THEN [z.starters EXCEPT ![i][k] = DoneStarter]
                          ELSE [z.starters EXCEPT ![i][k].pc = "mdestroy"]
    /\ UNCHANGED <<cfg, task, queue, running, completed, skipped, gtasks, gcompleted,
                   sup, aux, opChan, termChan, main, failedTestsCount, report, hist>>

\* destroyCluster of the monitor from Destroy on (its result is dropped).
MonitorDestroyEnds(i, k) ==
    /\ starters[i][k].pc = "mdestroy"
    /\ CanSend
    /\ inst' = [inst EXCEPT ![i].state = clusterCrashed]
    /\ opChan' = Append(opChan, ClusterEvent(i))
    /\ starters' = [starters EXCEPT ![i][k] = DoneStarter]
    /\ env' = [env EXCEPT !.destroys[i] = @ + 1]
    /\ hist' = HistCrashed(i)
    /\ UNCHANGED <<cfg, task, queue, running, completed, skipped, gtasks, gcompleted,
                   sup, aux, termChan, main, failedTestsCount, report>>

\* ------------------------------------------------ the supervisor (executeTask)

\* handleBeforeAfterScripts leaves the task's execution on every instance.
RECURSIVE installCancel(_, _, _)
installCancel(ins, instances, t) ==
    IF instances = <<>> THEN ins
    ELSE installCancel(
             [ins EXCEPT ![Head(instances)].taskCancel = t,
                         ![Head(instances)].runningExecution = ExecutionOf(t)],
             Tail(instances), t)

\* A name that numbers the first cluster config too.
KubeconfigNumbered(idx) == <<"KUBECONFIG", idx>>

\* prepareEnv: KUBECONFIG for the first cluster config, KUBECONFIG<idx> for
\* the others.
Kubeconfig(idx) == IF idx = 0 THEN <<"KUBECONFIG">> ELSE <<"KUBECONFIG", idx>>

\* fmt.Sprintf("%s=%s", name, value)
EnvEntry(name, value) == name \o <<"=">> \o value

\* prepareEnv(task, clusterConfigs...)
prepareEnv(tk, clusterConfigs) ==
    LET ClusterEnv == cfg.entries[tk.e].clusterEnv
        env0 == IF Len(ClusterEnv) > 0 /\ Len(ClusterEnv) = Len(clusterConfigs)
                THEN [ind \in 1..Len(ClusterEnv) |->
                          EnvEntry(ClusterEnv[ind], clusterConfigs[ind])]
                ELSE [j \in 1..Len(clusterConfigs) |->
                          EnvEntry(Kubeconfig(j - 1), clusterConfigs[j])]
        dir == tk.artifactDirectories[Len(tk.artifactDirectories)]
    IN  Append(env0, EnvEntry(<<"ARTIFACTS_DIR">>, dir))

\* The cluster configs startTask collected for executeTask.
ClusterConfigs(instances) == [j \in 1..Len(instances) |-> GetClusterConfig(instances[j])]

\* executeTask up to the runner: the cancel function, the hooks and the
\* environment.
SupPrepare(t) ==
    /\ sup[t].pc = "pre"
    /\ inst' = installCancel(inst, task[t].clusterInstances, t)
    /\ sup' = [sup EXCEPT ![t].pc = "run",
                          ![t].env = prepareEnv(task[t], ClusterConfigs(task[t].clusterInstances))]
    /\ hist' = HistHooks(t)
    /\ UNCHANGED <<cfg, task, queue, running, completed, skipped, gtasks, gcompleted,
                   starters, aux, opChan, termChan, main, failedTestsCount, report,
                   env>>

\* An updateTestExecution that keeps one entry and overwrites it.
updateTestExecutionOverwrite(tk, status) ==
    LET n == IF tk.executions = <<>> THEN 1 ELSE Len(tk.executions)
    IN  [tk EXCEPT !.status = status,
                   !.executions = [k \in 1..n |->
                                       IF k = n THEN [status |-> status, retry |-> n]
                                       ELSE tk.executions[k]]]

\* updateTestExecution on the task.
updateTestExecution(tk, status) ==
    [tk EXCEPT !.status = status,
               !.executions = Append(@, [status |-> status, retry |-> Len(@) + 1])]

resetRetestCounters(ins, instances) ==
    [i \in DOMAIN ins |->
        IF i \in Range(instances) THEN [ins[i] EXCEPT !.retestCounter = 0] ELSE ins[i]]

\* The supervisor ends its attempt with this status: one Executions entry and
\* one task-update event.
SupEmit(t, status, skipMsg, matched) ==
    /\ CanSend
    /\ task' = [task EXCEPT ![t] = [updateTestExecution(@, status) EXCEPT
                                        !.skipMessage = @ \/ skipMsg]]
    /\ opChan' = Append(opChan, TaskEvent(t))
    /\ sup' = [sup EXCEPT ![t] = IdleSupervisor]
    /\ hist' = HistEmit(t, status, matched)

\* The runner returns nil.
SupRunOk(t) ==
    /\ sup[t].pc = "run"
    /\ inst' = resetRetestCounters(inst, task[t].clusterInstances)
    /\ SupEmit(t, StatusSuccess, FALSE, FALSE)
    /\ UNCHANGED <<cfg, queue, running, completed, skipped, gtasks, gcompleted,
                   starters, aux, termChan, main, failedTestsCount, report, env>>

\* A restart check that takes RestartCount for the number of re-runs after the
\* first attempt and does not ask for it to be positive.
restartCheckUnguarded(executions) ==
    IF ~cfg.patterns THEN "none"
    ELSE IF Len(executions) <= cfg.restartCount THEN "rerun"
    ELSE "exhausted"

\* A restart check that grants one re-run more than RestartCount allows.
restartCheckOffByOne(executions) ==
    IF ~(cfg.patterns /\ cfg.restartCount > 0) THEN "none"
    ELSE IF Len(executions) <= cfg.restartCount THEN "rerun"
    ELSE "exhausted"

\* The restart check of executeTask for a failed run whose output matches a
\* pattern: it does not apply ("none"), asks for a re-run ("rerun"), or finds
\* the executions used up ("exhausted").
restartCheck(executions) ==
    IF ~(cfg.patterns /\ cfg.restartCount > 0) THEN "none"
    ELSE IF Len(executions) < cfg.restartCount THEN "rerun"
    ELSE "exhausted"

\* The output of a failed run may hold a line that matches a pattern without
\* executeTask looking for it: patterns are configured and the restart check
\* does not apply.
MatchUnseen(executions) == cfg.patterns /\ restartCheck(executions) = "none"

\* The runner returns an error and executeTask finds no line of the output
\* that matches a pattern (there is none, or it does not look): on to the
\* liveness checks.
\* The error is the test's own, or the runner's context was done:
\* the deadline of context.WithTimeout passed or the cancel function was called.
SupRunFails(t) ==
    /\ sup[t].pc = "run"
    /\ inst' = resetRetestCounters(inst, task[t].clusterInstances)
    /\ \E m \in IF MatchUnseen(task[t].executions) THEN BOOLEAN ELSE {FALSE} :
       \E deadline \in BOOLEAN :
           sup' = [sup EXCEPT ![t] = [@ EXCEPT !.pc = "alive", !.k = 1, !.failed = TRUE,
                                               !.cancelled = FALSE, !.matched = m,
                                               !.done = sup[t].cancelled \/ deadline]]
    /\ UNCHANGED <<cfg, task, queue, running, completed, skipped, gtasks, gcompleted,
                   starters, aux, opChan, termChan, main, failedTestsCount, report,
                   env, hist>>

\* The runner returns an error and the output matches a restart pattern.
SupRunMatches(t) ==
    /\ sup[t].pc = "run"
    /\ restartCheck(task[t].executions) # "none"
    /\ IF restartCheck(task[t].executions) = "rerun"
       THEN /\ sup' = [sup EXCEPT ![t] = [@ EXCEPT !.pc = "rerun", !.k = 1,
                                                  !.failed = TRUE, !.cancelled = FALSE,
                                                  !.matched = TRUE]]
            /\ UNCHANGED <<task, opChan, hist>>
       ELSE SupEmit(t, IF cfg.failSkip THEN StatusSkipped ELSE StatusFailed, cfg.failSkip,
                    TRUE)
    /\ UNCHANGED <<cfg, queue, running, completed, skipped, gtasks, gcompleted, inst,
                   starters, aux, termChan, main, failedTestsCount, report, env>>

\* A rerun branch that recycles the instance once the counter has passed
\* AllowedRetests.
RecycleLate(counter) == counter > cfg.allowedRetests

\* executeTask, the rerun branch: the retest counter has reached AllowedRetests.
RecycleNow(counter) == counter = cfg.allowedRetests

\* The rerun branch, for the instance at sup[t].k: the retest counter, the
\* forced destroy up to Destroy, and after the last instance the rerun request.
SupRerun(t) ==
    /\ sup[t].pc = "rerun"
    /\ LET ids == task[t].clusterInstances
           k == sup[t].k
       IN  IF k > Len(ids)
           THEN /\ SupEmit(t, StatusRerunRequest, FALSE, TRUE)
                /\ UNCHANGED <<inst, starters>>
           ELSE LET i == ids[k]
                    n == inst[i].retestCounter + 1
                IN  /\ UNCHANGED <<task, opChan, hist>>
                    /\ IF ~RecycleNow(n)
                       THEN /\ inst' = [inst EXCEPT ![i].retestCounter = n,
                                                    ![i].taskCancel = 0]
                            /\ sup' = [sup EXCEPT ![t].k = k + 1]
                            /\ UNCHANGED starters
                       ELSE LET z == destroyCluster(
                                         [Shared EXCEPT !.inst[i].retestCounter = 0,
                                                        !.inst[i].cancelMonitor = 0],
                                         i, TRUE, FALSE)
                            IN  /\ starters' = z.starters
                                /\ IF z.returned
                                   THEN /\ inst' = [z.inst EXCEPT ![i].taskCancel = 0]
                                        /\ sup' = [sup EXCEPT ![t].k = k + 1]
                                   ELSE /\ inst' = z.inst
                                        /\ sup' = [sup EXCEPT ![t].pc = "rerunDestroy"]
    /\ UNCHANGED <<cfg, queue, running, completed, skipped, gtasks, gcompleted, aux,
                   termChan, main, failedTestsCount, report, env>>

\* destroyCluster of the supervisor from Destroy on (its result is dropped).
SupDestroyEnds(t, from, to) ==
    /\ sup[t].pc = from
    /\ CanSend
    /\ LET i == task[t].clusterInstances[sup[t].k]
       IN  /\ inst' = [inst EXCEPT ![i].state = clusterCrashed, ![i].taskCancel = 0]
           /\ opChan' = Append(opChan, ClusterEvent(i))
           /\ env' = [env EXCEPT !.destroys[i] = @ + 1]
           /\ hist' = HistCrashed(i)
    /\ sup' = [sup EXCEPT ![t].pc = to, ![t].k = @ + 1]
    /\ UNCHANGED <<cfg, task, queue, running, completed, skipped, gtasks, gcompleted,
                   starters, aux, termChan, main, failedTestsCount, report>>

SupRerunDestroyEnds(t) == SupDestroyEnds(t, "rerunDestroy", "rerun")

\* The status of a failed attempt that is no rerun.
FailureStatus(dead) == IF dead THEN StatusTimeout ELSE StatusFailed

\* The failure branch, for the instance at sup[t].k: CheckIsAlive succeeds;
\* after the last instance the attempt ends failed or timeout.
SupAlive(t) ==
    /\ sup[t].pc = "alive"
    /\ LET ids == task[t].clusterInstances
           k == sup[t].k
       IN  IF k > Len(ids)
           THEN /\ SupEmit(t, FailureStatus(sup[t].dead), FALSE, sup[t].matched)
                /\ UNCHANGED inst
           ELSE /\ inst' = [inst EXCEPT ![ids[k]].taskCancel = 0]
                /\ sup' = [sup EXCEPT ![t].k = k + 1]
                /\ UNCHANGED <<task, opChan, hist>>
    /\ UNCHANGED <<cfg, queue, running, completed, skipped, gtasks, gcompleted,
                   starters, aux, termChan, main, failedTestsCount, report, env>>

\* The failure branch: CheckIsAlive fails, destroyCluster up to Destroy.
SupDead(t) ==
    /\ sup[t].pc = "alive"
    /\ sup[t].k <= Len(task[t].clusterInstances)
    /\ Fault
    /\ env' = WithFault
    /\ LET i == task[t].clusterInstances[sup[t].k]
           z == destroyCluster(Shared, i, TRUE, FALSE)
       IN  /\ starters' = z.starters
           /\ IF z.returned
              THEN /\ inst' = [z.inst EXCEPT ![i].taskCancel = 0]
                   /\ sup' = [sup EXCEPT ![t].k = @ + 1, ![t].dead = TRUE]
              ELSE /\ inst' = z.inst
                   /\ sup' = [sup EXCEPT ![t].pc = "aliveDestroy", ![t].dead = TRUE]
    /\ UNCHANGED <<cfg, task, queue, running, completed, skipped, gtasks, gcompleted,
                   aux, opChan, termChan, main, failedTestsCount, report, hist>>

SupAliveDestroyEnds(t) == SupDestroyEnds(t, "aliveDestroy", "alive")

\* ------------------------------------------------------------------- report

\* A report that reads the completed maps only.
AllCompletedTestTasks ==
    {<<g, "completed", p[2]>> : <<g, p>> \in
        {<<h, q>> \in (1..NumGroups) \X UNION {gcompleted[h] : h \in 1..NumGroups} :
            q \in gcompleted[h]}}

\* getAllTestTasksGroupedByExecutions: the tasks of every group's tasks and
\* completed maps, as <<group, map, task>> occurrences (one test case each).
AllTestTasks ==
    {<<g, "tasks", p[2]>> : <<g, p>> \in
        {<<h, q>> \in (1..NumGroups) \X UNION {gtasks[h] : h \in 1..NumGroups} : q \in gtasks[h]}}
    \cup
    {<<g, "completed", p[2]>> : <<g, p>> \in
        {<<h, q>> \in (1..NumGroups) \X UNION {gcompleted[h] : h \in 1..NumGroups} :
            q \in gcompleted[h]}}

\* hasFailedCluster
hasFailedCluster(t) ==
    \E k \in 1..Len(task[t].clusters) :
        \A i \in Range(GroupInstances(cfg, task[t].clusters[k])) :
            inst[i].state = clusterNotAvailable

\* generateTestCaseReport: the kind of test case a task yields.
CaseKind(t) ==
    LET st == task[t].status
    IN  IF st \in {StatusFailed, StatusTimeout} THEN "failure"
        ELSE IF st = StatusSkipped THEN "skip"
        ELSE IF st = StatusSkippedSinceNoClusters
        THEN (IF hasFailedCluster(t) THEN "skip" ELSE "failure")
        ELSE "pass"

CasesOfKind(kind) == Cardinality({o \in AllTestTasks : CaseKind(o[3]) = kind})

\* generateClusterFailuresReportSuite: one case per instance of a group whose
\* instances are all not available.
ClusterFailureCases ==
    Cardinality({i \in Instances :
        \A j \in Range(GroupInstances(cfg, GroupOf(cfg, i))) :
            inst[j].state = clusterNotAvailable})

generateJUnitReportFile ==
    [generated |-> TRUE,
     tests |-> Cardinality(AllTestTasks),
     failures |-> CasesOfKind("failure"),
     skips |-> CasesOfKind("skip"),
     passes |-> CasesOfKind("pass"),
     clusterFailures |-> ClusterFailureCases]

\* CloudTestRun after PerformTesting: os.Exit(1) when the loop or the report
\* ("there is failed tests") returned an error.
ExitCode(err, rep) == IF err \/ rep.failures + rep.clusterFailures > 0 THEN 1 ELSE 0

\* performTestingContext after the loop: the report, then performShutdown.
MainReport ==
    /\ main.pc = "report"
    /\ report' = generateJUnitReportFile
    /\ main' = IF cfg.noStop
               THEN [main EXCEPT !.pc = "done",
                                 !.exit = ExitCode(main.err, generateJUnitReportFile)]
               ELSE [main EXCEPT !.pc = "shutdown"]
    /\ UNCHANGED <<cfg, task, queue, running, completed, skipped, gtasks, gcompleted,
                   inst, starters, sup, aux, opChan, termChan, failedTestsCount, env,
                   hist>>

\* ---------------------------------------------------------- performShutdown

RECURSIVE cancelAll(_, _)
cancelAll(sp, ids) ==
    IF ids = {} THEN sp
    ELSE LET i == CHOOSE j \in ids : TRUE
         IN  cancelAll(CancelTask(sp, inst[i].taskCancel), ids \ {i})

\* performShutdown cancels the running tasks and spawns one destroy per instance.
MainShutdown ==
    /\ main.pc = "shutdown"
    /\ sup' = cancelAll(sup, Instances)
    /\ aux' = [aux EXCEPT !.shut = [i \in Instances |-> "begin"]]
    /\ main' = [main EXCEPT !.pc = "wait"]
    /\ UNCHANGED <<cfg, task, queue, running, completed, skipped, gtasks, gcompleted,
                   inst, starters, opChan, termChan, failedTestsCount, report, env,
                   hist>>

\* destroyCluster of a shutdown goroutine up to Destroy.
ShutdownDestroyBegins(i) ==
    /\ aux.shut[i] = "begin"
    /\ LET z == destroyCluster(Shared, i, FALSE, FALSE)
       IN  /\ inst' = z.inst
           /\ starters' = z.starters
           /\ aux' = [aux EXCEPT !.shut[i] = IF z.returned THEN "done" ELSE "destroy"]
    /\ UNCHANGED <<cfg, task, queue, running, completed, skipped, gtasks, gcompleted,
                   sup, opChan, termChan, main, failedTestsCount, report, env, hist>>

\* destroyCluster of a shutdown goroutine from Destroy on: no update is sent.
ShutdownDestroyEnds(i) ==
    /\ aux.shut[i] = "destroy"
    /\ inst' = [inst EXCEPT ![i].state = clusterCrashed]
    /\ env' = [env EXCEPT !.destroys[i] = @ + 1]
    /\ aux' = [aux EXCEPT !.shut[i] = "done"]
    /\ UNCHANGED <<cfg, task, queue, running, completed, skipped, gtasks, gcompleted,
                   starters, sup, opChan, termChan, main, failedTestsCount, report,
                   hist>>

\* clusterWaitGroup.Wait returns, and with it PerformTesting.
MainShutdownDone ==
    /\ main.pc = "wait"
    /\ \A i \in Instances : aux.shut[i] = "done"
    /\ main' = [main EXCEPT !.pc = "done", !.exit = ExitCode(main.err, report)]
    /\ UNCHANGED <<cfg, task, queue, running, completed, skipped, gtasks, gcompleted,
                   inst, starters, sup, aux, opChan, termChan, failedTestsCount,
                   report, env, hist>>

\* ----------------------------------------------------------- specification

Main ==
    \/ MainAssign
    \/ MainAssignIter
    \/ MainUsage
    \/ MainPollCluster
    \/ MainPollTaskComplete
    \/ MainPollTaskReschedule
    \/ MainPollTaskWarmup
    \/ MainPollTick
    \/ MainPollTermination
    \/ MainPollSignal
    \/ MainReport
    \/ MainShutdown
    \/ MainShutdownDone

Starter(i, k) ==
    \/ StarterInc(i, k)
    \/ StarterStartOk(i, k)
    \/ StarterStartFail(i, k)
    \/ StarterDestroyOk(i, k)
    \/ StarterDestroyFail(i, k)
    \/ StarterForce(i, k)
    \/ StarterDecide(i, k)
    \/ MonitorFirstCheck(i, k)
    \/ MonitorCancelled(i, k)
    \/ MonitorCheckFails(i, k)
    \/ MonitorDestroyEnds(i, k)

Supervisor(t) ==
    \/ SupPrepare(t)
    \/ SupRunOk(t)
    \/ SupRunFails(t)
    \/ SupRunMatches(t)
    \/ SupRerun(t)
    \/ SupRerunDestroyEnds(t)
    \/ SupAlive(t)
    \/ SupDead(t)
    \/ SupAliveDestroyEnds(t)

Next ==
    \/ Main
    \/ \E i \in Instances : \E k \in 1..Len(starters[i]) : Starter(i, k)
    \/ \E t \in Tasks : Supervisor(t)
    \/ \E t \in Tasks : WarmupReschedule(t) \/ WarmupSend(t)
    \/ \E i \in Instances : ShutdownDestroyBegins(i) \/ ShutdownDestroyEnds(i)

Spec == Init /\ [][Next]_vars

\* The Go scheduler lets every goroutine that can take a step take one: the
\* main goroutine, the starters and monitors, the supervisors, the warmup
\* goroutines and the goroutines of performShutdown.  Nothing obliges the
\* provider or a runner to fail, a signal to arrive, or a deadline to pass.
LiveSpec ==
    /\ Spec
    /\ WF_vars(Main)
    /\ WF_vars(\E i \in Instances : \E k \in 1..Len(starters[i]) : Starter(i, k))
    /\ WF_vars(\E t \in Tasks : Supervisor(t))
    /\ WF_vars(\E t \in Tasks : WarmupReschedule(t) \/ WarmupSend(t))
    /\ WF_vars(\E i \in Instances : ShutdownDestroyBegins(i) \/ ShutdownDestroyEnds(i))

\* ------------------------------------------------------ the creation of tasks
\* performTestingContext up to createTasks, for configurations whose test
\* entry may hold a suite: the state before createTasks, and createTasks as
\* one step.

\* The sub-tests of a suite of L tests.
SuiteOf(L) == [k \in 1..L |-> k]

SplitConfigs ==
    {[BaseConfig EXCEPT !.groups = <<Group("A", n, 0)>>,
                        !.entries = <<[Entry("T1", <<>>, 1) EXCEPT
                                           !.hasSuite = hs,
                                           !.suite = IF hs THEN SuiteOf(L) ELSE <<>>]>>,
                        !.minSuiteSize = m, !.faults = 0] :
        L \in 0..MaxSuite, n \in 1..MaxSplit, m \in 0..MaxMinSuite, hs \in BOOLEAN}

\* The execution context with its cluster handles and no task yet, the main
\* goroutine at pc.
ContextBefore(c, pc) ==
    /\ cfg = c
    /\ task = <<>>
    /\ queue = <<>>
    /\ running = {}
    /\ completed = <<>>
    /\ skipped = <<>>
    /\ gtasks = [g \in 1..Len(c.groups) |-> {}]
    /\ gcompleted = [g \in 1..Len(c.groups) |-> {}]
    /\ inst = [i \in 1..NumInstances(c) |-> NewInstance]
    /\ starters = [i \in 1..NumInstances(c) |-> <<>>]
    /\ sup = <<>>
    /\ aux = [warmup |-> <<>>, warming |-> {},
              shut |-> [i \in 1..NumInstances(c) |-> "none"]]
    /\ opChan = <<>>
    /\ termChan = <<>>
    /\ main = [pc |-> pc, snapshot |-> <<>>, idx |-> 0, newTasks |-> <<>>,
               sendq |-> <<>>, err |-> FALSE, exit |-> -1, cause |-> "none"]
    /\ failedTestsCount = 0
    /\ report = [generated |-> FALSE]
    /\ env = [faults |-> 0, signals |-> 0,
              starts |-> [i \in 1..NumInstances(c) |-> 0],
              failedStarts |-> [i \in 1..NumInstances(c) |-> 0],
              destroys |-> [i \in 1..NumInstances(c) |-> 0]]
    /\ hist = [dispatched |-> <<>>, emitted |-> <<>>, matched |-> <<>>,
               cyc |-> [i \in 1..NumInstances(c) |-> "new"],
               rerun |-> [i \in 1..NumInstances(c) |-> FALSE],
               hit |-> [i \in 1..NumInstances(c) |-> 0],
               before |-> [i \in 1..NumInstances(c) |-> ""]]

BeforeCreateTasks(c) == ContextBefore(c, "create")

\* ctx.createTasks(): the state the main loop starts from.
PerformCreateTasks ==
    /\ main.pc = "create"
    /\ LET cs == createTasks(cfg)
           n == Len(cs.task)
       IN  /\ task' = cs.task
           /\ queue' = cs.queue
           /\ skipped' = cs.skipped
           /\ gtasks' = cs.gtasks
           /\ sup' = [t \in 1..n |-> IdleSupervisor]
           /\ aux' = [aux EXCEPT !.warmup = [t \in 1..n |-> <<>>]]
           /\ hist' = [hist EXCEPT !.dispatched = [t \in 1..n |-> 0],
                                   !.emitted = [t \in 1..n |-> 0],
                                   !.matched = [t \in 1..n |-> <<>>]]
    /\ main' = [main EXCEPT !.pc = "assign"]
    /\ UNCHANGED <<cfg, running, completed, gcompleted, inst, starters, opChan,
                   termChan, failedTestsCount, report, env>>

CreateSpec == (\E c \in SplitConfigs : BeforeCreateTasks(c)) /\ [][PerformCreateTasks]_vars

\* ------------------------------------------------------------- CloudTestRun
\* The whole command: the steps before the loop, each of which may fail, then
\* createTasks and the run.  main.exit is the exit code of the process (-1
\* while it runs), main.cause the step before the loop that failed.

\* ReadFile, parseConfig, performImport, then in performTestingContext
\* findTests, createClusters and createTasks.
StartupStages == <<"read", "parse", "import", "find", "clusters", "create">>

\* What CloudTestRun does with the error of a step before the loop: it returns
\* after ReadFile's, and calls os.Exit(1) after the others'.
ExitOnError(stage) == IF stage = "read" THEN 0 ELSE 1

StartupOk ==
    /\ \E k \in 1..(Len(StartupStages) - 1) :
           /\ main.pc = StartupStages[k]
           /\ main' = [main EXCEPT !.pc = StartupStages[k + 1]]
    /\ UNCHANGED <<cfg, task, queue, running, completed, skipped, gtasks, gcompleted,
                   inst, starters, sup, aux, opChan, termChan, failedTestsCount,
                   report, env, hist>>

StartupFails ==
    /\ \E k \in 1..(Len(StartupStages) - 1) :
           /\ main.pc = StartupStages[k]
           /\ main' = [main EXCEPT !.pc = "exited", !.cause = StartupStages[k],
                                   !.exit = ExitOnError(StartupStages[k])]
    /\ UNCHANGED <<cfg, task, queue, running, completed, skipped, gtasks, gcompleted,
                   inst, starters, sup, aux, opChan, termChan, failedTestsCount,
                   report, env, hist>>

RunNext == StartupOk \/ StartupFails \/ PerformCreateTasks \/ Next

RunSpec == (\E c \in Configs : ContextBefore(c, "read")) /\ [][RunNext]_vars

\* ------------------------------------------------------------ performImport
\* The root configuration here is [imports, executions, providers, timeout];
\* env.files is the file system: what ReadFile and parseConfig make of each
\* file (status "unreadable", "unparsable", or "ok" and what it holds).  An entry
\* of imports is [exists, file] for a path that FileExists finds, or
\* [exists, files, bad] for a directory and pattern, with the files
\* FilterByPattern returns, or its error (bad).

\* An importFiles that takes the executions of a file and not its providers.
AppendImportedExecutions(config, content) ==
    [config EXCEPT !.executions = @ \o content.executions]

\* importFiles: "Do add imported items".
AppendImported(config, content) ==
    [config EXCEPT !.executions = @ \o content.executions,
                   !.providers = @ \o content.providers]

RECURSIVE importFiles(_, _, _)
\* importFiles(testConfig, files...): the configuration and the error.
importFiles(config, fs, files) ==
    IF files = <<>> THEN [config |-> config, err |-> "nil"]
    ELSE IF fs[Head(files)].status = "unreadable"
         THEN [config |-> config, err |-> "read"]
    ELSE IF fs[Head(files)].status = "unparsable"
         THEN [config |-> config, err |-> "parse"]
    ELSE importFiles(AppendImported(config, fs[Head(files)]), fs, Tail(files))

RECURSIVE performImport(_, _, _)
\* performImport from the k-th entry of testConfig.Imports on.
performImport(config, fs, k) ==
    IF k > Len(config.imports) THEN [config |-> config, err |-> "nil"]
    ELSE LET imp == config.imports[k]
             r == IF imp.exists THEN importFiles(config, fs, <<imp.file>>)
                  ELSE IF imp.bad THEN [config |-> config, err |-> "pattern"]
                  ELSE importFiles(config, fs, imp.files)
         IN  IF r.err # "nil" THEN r ELSE performImport(r.config, fs, k + 1)

FileNames == {"f1", "f2"}

\* What file f is: unreadable, unparsable, or a configuration of one execution,
\* or of one execution and one provider.
FileContents(f) ==
    {[status |-> s, executions |-> <<>>, providers |-> <<>>] :
         s \in {"unreadable", "unparsable"}}
        \cup {[status |-> "ok", executions |-> <<<<"exec", f>>>>, providers |-> p] :
                  p \in {<<>>, <<<<"prov", f>>>>}}

ImportEntries ==
    {[exists |-> TRUE, file |-> f] : f \in FileNames}
        \cup {[exists |-> FALSE, files |-> fl, bad |-> FALSE] :
                  fl \in {<<>>, <<"f1", "f2">>, <<"f2", "f1">>}}
        \cup {[exists |-> FALSE, files |-> <<>>, bad |-> TRUE]}

\* CloudTestRun before performImport, the root configuration parsed.
BeforeImport(config, fs) ==
    /\ cfg = config
    /\ env = [files |-> fs]
    /\ hist = [config |-> config]
    /\ main = [pc |-> "import", snapshot |-> <<>>, idx |-> 0, newTasks |-> <<>>,
               sendq |-> <<>>, err |-> FALSE, exit |-> -1, cause |-> "none"]
    /\ task = <<>> /\ queue = <<>> /\ running = {} /\ completed = <<>>
    /\ skipped = <<>> /\ gtasks = <<>> /\ gcompleted = <<>> /\ inst = <<>>
    /\ starters = <<>> /\ sup = <<>> /\ opChan = <<>> /\ termChan = <<>>
    /\ aux = [warmup |-> <<>>, warming |-> {}, shut |-> <<>>]
    /\ failedTestsCount = 0
    /\ report = [generated |-> FALSE]

\* CloudTestRun: performImport, and os.Exit(1) on its error.
PerformImport ==
    /\ main.pc = "import"
    /\ LET r == performImport(cfg, env.files, 1)
       IN  /\ cfg' = r.config
           /\ main' = IF r.err = "nil" THEN [main EXCEPT !.pc = "find"]
                      ELSE [main EXCEPT !.pc = "exited", !.cause = r.err,
                                        !.exit = ExitOnError("import")]
    /\ UNCHANGED <<task, queue, running, completed, skipped, gtasks, gcompleted,
                   inst, starters, sup, aux, opChan, termChan, failedTestsCount,
                   report, env, hist>>

ImportSpec ==
    (\E n \in 0..MaxImports : \E imps \in [1..n -> ImportEntries] :
     \E c1 \in FileContents("f1") : \E c2 \in FileContents("f2") :
     LET fs == [f \in FileNames |-> IF f = "f1" THEN c1 ELSE c2] IN
         BeforeImport([imports |-> imps, executions |-> <<<<"exec", "root">>>>,
                       providers |-> <<<<"prov", "root">>>>, timeout |-> 0], fs))
        /\ [][PerformImport]_vars

\* ------------------------------------------------- the runner's environment
\* executeTask entered for a task that startTask has just dispatched on one
\* instance of each of its groups, for configurations with a ClusterEnv.

GroupNames == <<"A", "B", "C", "D">>

\* ExecutionConfig.ClusterEnv: up to MaxEnv names.
ClusterEnvs == UNION {[1..n -> {<<"X">>, <<"Y">>}] : n \in 0..MaxEnv}

\* k groups of one instance and one test that needs all of them; the second
\* attempt of a test follows a rerun request.
EnvConfigs ==
    {[BaseConfig EXCEPT !.groups = [j \in 1..k |-> Group(GroupNames[j], 1, 0)],
                        !.entries = <<[Entry("T1", [j \in 1..k |-> GroupNames[j]], k)
                                          EXCEPT !.clusterEnv = ce]>>,
                        !.patterns = TRUE, !.restartCount = MaxDirs,
                        !.allowedRetests = MaxDirs + 1, !.faults = 0] :
        k \in 1..MaxClusters, ce \in ClusterEnvs}

RECURSIVE AfterAttempts(_, _, _)
\* The task after d attempts on the instances use that ended with a rerun
\* request.
AfterAttempts(tk, use, d) ==
    IF d = 0 THEN tk
    ELSE updateTestExecution(
             [WithFolder(AfterAttempts(tk, use, d - 1), use) EXCEPT !.clusterInstances = use],
             StatusRerunRequest)

\* The state when startTask has dispatched the only task for the d-th time;
\* its earlier attempts ended with a rerun request.
AfterStartTask(c, d) ==
    LET cs == createTasks(c)
        n == NumInstances(c)
        use == [j \in 1..n |-> j]
    IN  /\ cfg = c
        /\ task = [t \in 1..Len(cs.task) |->
                       [WithFolder(AfterAttempts(cs.task[t], use, d - 1), use)
                            EXCEPT !.clusterInstances = use]]
        /\ queue = <<>>
        /\ running = {1}
        /\ completed = <<>>
        /\ skipped = cs.skipped
        /\ gtasks = cs.gtasks
        /\ gcompleted = [g \in 1..Len(c.groups) |-> {}]
        /\ inst = [i \in 1..n |->
                       [NewInstance EXCEPT !.state = clusterBusy, !.startCount = 1,
                                           !.cancelMonitor = 1, !.retestCounter = d - 1]]
        /\ starters = [i \in 1..n |-> <<[NewStarter EXCEPT !.pc = "monitor",
                                                            !.first = FALSE]>>]
        /\ sup = [t \in 1..Len(cs.task) |-> [IdleSupervisor EXCEPT !.pc = "pre"]]
        /\ aux = [warmup |-> [t \in 1..Len(cs.task) |-> <<>>],
                  warming |-> {},
                  shut |-> [i \in 1..n |-> "none"]]
        /\ opChan = <<>>
        /\ termChan = <<>>
        /\ main = [pc |-> "poll", snapshot |-> <<>>, idx |-> 0, newTasks |-> <<>>,
                   sendq |-> <<>>, err |-> FALSE, exit |-> -1, cause |-> "none"]
        /\ failedTestsCount = 0
        /\ report = [generated |-> FALSE]
        /\ env = [faults |-> 0, signals |-> 0,
                  starts |-> [i \in 1..n |-> 1],
                  failedStarts |-> [i \in 1..n |-> 0],
                  destroys |-> [i \in 1..n |-> 0]]
        /\ hist = [dispatched |-> [t \in 1..Len(cs.task) |-> d],
                   emitted |-> [t \in 1..Len(cs.task) |-> d - 1],
                   matched |-> [t \in 1..Len(cs.task) |-> [j \in 1..(d - 1) |-> TRUE]],
                   cyc |-> [i \in 1..n |-> "used"],
                   rerun |-> [i \in 1..n |-> FALSE],
                   hit |-> [i \in 1..n |-> 0],
                   before |-> [i \in 1..n |-> ""]]

EnvSpec ==
    (\E c \in EnvConfigs : \E d \in 1..MaxDirs : AfterStartTask(c, d))
        /\ [][\E t \in Tasks : SupPrepare(t)]_vars

\* ------------------------------------------------------------------- claims

\* The instances task t is bound to (task.clusterInstances).
Bound(t) == Range(task[t].clusterInstances)

\* An attempt of t is in flight: startTask has dispatched it and executeTask
\* has not yet emitted its task-update event.
InAttempt(t) == sup[t].pc # "idle"

\* C1: no cluster instance is bound to two running tasks at once: two
\* different tasks of ctx.running never share an instance.
C1_InstanceExclusive ==
    \A t1 \in running, t2 \in running : t1 # t2 => Bound(t1) \cap Bound(t2) = {}

C3_StartCountBounded ==
    \A i \in Instances : inst[i].startCount <= RetryCount(i) + 1

\* C4: not-available is terminal: an instance in that state never changes its
\* state again and no task is bound to it afterwards.
C4_NotAvailableTerminal ==
    [][\A i \in Instances :
          inst[i].state = clusterNotAvailable =>
              /\ inst'[i].state = clusterNotAvailable
              /\ \A t \in Tasks : i \in Bound(t)' => i \in Bound(t)]_vars

\* C5: len(Executions) of a task is the number of times startTask dispatched
\* it: every attempt appends exactly one entry and emits exactly one
\* task-update event, and the entries are numbered 1, 2, 3, ... in order.
C5_OneExecutionPerDispatch ==
    \A t \in Tasks :
        /\ Len(task[t].executions) = hist.emitted[t]
        /\ hist.dispatched[t] = hist.emitted[t] + (IF InAttempt(t) THEN 1 ELSE 0)
        /\ \A k \in 1..Len(task[t].executions) : task[t].executions[k].retry = k

\* A task was dispatched three times and every attempt has ended.
C5_Witness ==
    \E t \in Tasks :
        /\ hist.dispatched[t] = 3
        /\ ~InAttempt(t)
        /\ Len(task[t].executions) = 3

\* The terminal statuses of C6.
TerminalStatuses ==
    {StatusSuccess, StatusFailed, StatusTimeout, StatusSkipped,
     StatusSkippedSinceNoClusters}

\* C6: when the main loop exits because nothing is pending and nothing is
\* running, every created task has a terminal status (none is still added or
\* a rerun request).
C6_TerminalStatusAtExit ==
    main.pc = "report" /\ ~main.err =>
        \A t \in Tasks : task[t].status \in TerminalStatuses

\* The test cases the report holds for task t.
CasesOf(t) == Cardinality({o \in AllTestTasks : o[3] = t})

KeyUnique(t) ==
    \A u \in Tasks \ {t} :
        task[u].key = task[t].key =>
            Range(task[u].clusters) \cap Range(task[t].clusters) = {}

C8_DestroyOfDownInstanceIsNoOp ==
    \A i \in Instances :
        inst[i].state \in {clusterShutdown, clusterCrashed, clusterNotAvailable} =>
            \A sendUpdate \in BOOLEAN, fork \in BOOLEAN :
                LET r == destroyCluster(Shared, i, sendUpdate, fork)
                IN  /\ r.returned /\ ~r.err
                    /\ r.sent = <<>>
                    /\ r.inst = inst /\ r.starters = starters /\ r.env = env

\* A shutdown goroutine has called destroyCluster on an instance that was not
\* available or shut down, and has returned.
C8_Witness ==
    \E i \in Instances :
        /\ aux.shut[i] = "done"
        /\ inst[i].state \in {clusterNotAvailable, clusterShutdown}

\* The groups the selector of entry e names.
MatchedGroups(e) ==
    {g \in 1..NumGroups : Contains(cfg.entries[e].selector, cfg.groups[g].name)}

\* The entries of the selector of entry e that name a group, repeated names
\* counted each time.
MatchingSelectorEntries(e) ==
    {k \in 1..Len(cfg.entries[e].selector) :
        \E g \in 1..NumGroups : cfg.groups[g].name = cfg.entries[e].selector[k]}

\* Task t was skipped at its creation and never dispatched.
SkippedAndNeverDispatched(t) ==
    /\ task[t].status = StatusSkipped
    /\ hist.dispatched[t] = 0
    /\ t \notin running

\* C9, as stated: every task of an entry with ClusterCount > 1 whose selector
\* matches fewer cluster groups than ClusterCount is skipped when createTask
\* returns and is never dispatched.
C9_SkippedWhenFewerGroups ==
    \A t \in Tasks :
        LET e == task[t].e
        IN  /\ cfg.entries[e].clusterCount > 1
            /\ Cardinality(MatchedGroups(e)) < cfg.entries[e].clusterCount
            => SkippedAndNeverDispatched(t)

\* C9, amended: the same for an entry whose selector has fewer entries that
\* name a cluster group than ClusterCount, a name that is repeated counting
\* each time.
C9_SkippedWhenFewerSelectorEntries ==
    \A t \in Tasks :
        LET e == task[t].e
        IN  /\ cfg.entries[e].clusterCount > 1
            /\ Cardinality(MatchingSelectorEntries(e)) < cfg.entries[e].clusterCount
            => SkippedAndNeverDispatched(t)

\* The run has ended and a task that lacked a cluster of its two is still
\* skipped, while another task was dispatched.
C9_Witness ==
    /\ main.pc = "done"
    /\ \E t \in Tasks :
           /\ cfg.entries[task[t].e].clusterCount > 1
           /\ Cardinality(MatchingSelectorEntries(task[t].e)) = 1
           /\ SkippedAndNeverDispatched(t)
    /\ \E t \in Tasks : hist.dispatched[t] > 0

\* C10: with RestartCount 0 no attempt ends in a rerun request, whatever the
\* patterns and the output are.
C10_NoRerunWithoutRestartCount ==
    cfg.restartCount = 0 =>
        \A t \in Tasks :
            /\ task[t].status # StatusRerunRequest
            /\ \A k \in 1..Len(task[t].executions) :
                   task[t].executions[k].status # StatusRerunRequest
            /\ sup[t].pc \notin {"rerun", "rerunDestroy"}

\* With patterns and RestartCount 0 a run has failed and was recorded as failed.
C10_Witness ==
    /\ cfg.restartCount = 0
    /\ cfg.patterns
    /\ \E t \in Tasks :
           /\ Len(task[t].executions) > 0
           /\ task[t].executions[1].status = StatusFailed

\* Task t is dispatched in this step.
DispatchOf(t) == hist.dispatched[t]' = hist.dispatched[t] + 1

\* C11: with AllowedRetests 1, after an attempt has ended as a rerun request no
\* further attempt is dispatched on an instance it was bound to before the
\* instance was destroyed (crashed stored by a destroyCluster) and after that
\* started again (a new call of the provider's Start).
C11_RerunRecyclesInstance ==
    [][cfg.allowedRetests = 1 =>
          \A t \in Tasks :
              DispatchOf(t) =>
                  \A i \in Bound(t)' : hist.rerun[i] => hist.cyc[i] = "started"]_vars

\* The happy path so far: one group of one instance, one test, the clusters are
\* stopped at the end, and up to now no provider call has failed, no signal
\* has come, and no run of the test has failed.
HappyPath ==
    /\ Len(cfg.groups) = 1 /\ cfg.groups[1].n = 1
    /\ Len(cfg.entries) = 1 /\ Len(task) = 1
    /\ ~cfg.noStop
    /\ env.faults = 0 /\ env.signals = 0
    /\ ~main.err
    /\ ~sup[1].failed
    /\ \A k \in 1..Len(task[1].executions) : task[1].executions[k].status = StatusSuccess

SchedulableTasksOf(g) ==
    {t \in Tasks : /\ g \in Range(task[t].clusters)
                   /\ ~Contains(skipped, t)
                   /\ ~(task[t].status = StatusSkipped /\ hist.dispatched[t] = 0)}

\* Up to now every call of the provider's Start on instance i has failed and
\* no other provider call has.
StartAlwaysFails(i) ==
    /\ env.starts[i] > 0
    /\ env.failedStarts[i] = env.starts[i]
    /\ env.faults = env.failedStarts[i]

\* C13: when the provider's Start always fails (and Destroy succeeds) for the
\* only instance of a group with RetryCount R, at the end of the run Start was
\* called R + 1 times, the instance is not available, and every task that
\* requires the group is skipped for unavailable clusters.
C13_RetryExhaustion ==
    [][\A g \in 1..NumGroups :
          LET i == GroupInstances(cfg, g)[1]
          IN  /\ cfg.groups[g].n = 1
              /\ main.pc # "done" /\ main.pc' = "done" /\ ~main.err'
              /\ StartAlwaysFails(i)'
              => /\ env.starts'[i] = RetryCount(i) + 1
                 /\ inst'[i].state = clusterNotAvailable
                 /\ \A t \in SchedulableTasksOf(g)' :
                        task'[t].status = StatusSkippedSinceNoClusters]_vars

\* The entries of the Executions of task t that are rerun requests.
RerunRequests(t) ==
    {k \in 1..Len(task[t].executions) : task[t].executions[k].status = StatusRerunRequest}

\* The attempts of task t that failed with a matching line of output.
MatchingAttempts(t) == {k \in 1..Len(hist.matched[t]) : hist.matched[t][k]}

\* How an attempt ends that matches when the executions are used up.
ExhaustedStatus == IF cfg.failSkip THEN StatusSkipped ELSE StatusFailed

\* The attempts of t up to k - 1 had used up the restarts, the attempt k failed
\* with a matching line: it ended failed or skipped, and it was the last.
ExhaustedIsLast(t, k) ==
    /\ task[t].executions[k].status = ExhaustedStatus
    /\ k = Len(task[t].executions)
    /\ ~InAttempt(t)
    /\ hist.dispatched[t] = k

\* C14, as stated: a task has at most RestartCount rerun requests; a failed
\* attempt that matches when len(Executions) >= RestartCount ends failed (or
\* skipped, when the fail result is skip) and the task is not run again; so a
\* task has at most RestartCount + 1 matching attempts.
C14_RerunBudget ==
    \A t \in Tasks :
        /\ Cardinality(RerunRequests(t)) <= cfg.restartCount
        /\ \A k \in MatchingAttempts(t) : k - 1 >= cfg.restartCount => ExhaustedIsLast(t, k)
        /\ Cardinality(MatchingAttempts(t)) <= cfg.restartCount + 1

\* C14, amended: a task has at most RestartCount rerun requests.  With
\* RestartCount > 0 a failed attempt that matches when len(Executions) >=
\* RestartCount ends failed (or skipped, when the fail result is skip) and the
\* task is not run again, so a task has at most RestartCount + 1 matching
\* attempts; with RestartCount 0 the patterns are not looked at and a matching
\* attempt ends like any other failed one.
C14_RerunBudgetWhenEnabled ==
    \A t \in Tasks :
        /\ Cardinality(RerunRequests(t)) <= cfg.restartCount
        /\ cfg.restartCount > 0 =>
               /\ \A k \in MatchingAttempts(t) :
                      k - 1 >= cfg.restartCount => ExhaustedIsLast(t, k)
               /\ Cardinality(MatchingAttempts(t)) <= cfg.restartCount + 1
        /\ cfg.restartCount = 0 =>
               \A k \in MatchingAttempts(t) :
                   task[t].executions[k].status \in {StatusFailed, StatusTimeout}

\* A task has used up two restarts and its third matching attempt was its last.
C14_Witness ==
    \E t \in Tasks :
        /\ cfg.restartCount > 1
        /\ Cardinality(RerunRequests(t)) = cfg.restartCount
        /\ Cardinality(MatchingAttempts(t)) = cfg.restartCount + 1
        /\ ExhaustedIsLast(t, Len(task[t].executions))
        /\ main.pc = "done"

\* The step is the rerun branch of t's supervisor handling the bound instance i.
RerunStepOn(t, i) ==
    /\ sup[t].pc = "rerun"
    /\ sup[t].k <= Len(task[t].clusterInstances)
    /\ task[t].clusterInstances[sup[t].k] = i
    /\ sup'[t] # sup[t]

\* The step ends an attempt of t.
EmitOf(t) == hist'.emitted[t] = hist.emitted[t] + 1

\* The scenario of C15 after the step: RestartCount 2, AllowedRetests 2, no
\* provider failure and no termination request, no other test has run, and
\* the attempts of t so far are the first n of: fails with a matching line,
\* fails with a matching line, passes.
RecycleScenario(t, n) ==
    /\ cfg.restartCount = 2 /\ cfg.allowedRetests = 2
    /\ env'.faults = 0 /\ env'.signals = 0
    /\ \A u \in Tasks \ {t} : hist'.dispatched[u] = 0
    /\ Len(hist'.matched[t]) = n
    /\ \A k \in 1..n : hist'.matched[t][k] = (k <= 2)
    /\ n = 3 => task'[t].executions[3].status = StatusSuccess

\* C15: in the rerun branch the supervisor calls destroyCluster on a bound
\* instance exactly when the instance's retest counter, incremented, equals
\* AllowedRetests (the instance, busy or ready, goes to stopping and the
\* supervisor waits for Destroy; an instance already down or starting is left
\* as it is) and the counter is then 0, and otherwise keeps the incremented
\* counter and the instance's state.  In the scenario (RestartCount 2,
\* AllowedRetests 2, attempts 1 and 2 of the one test that runs fail with a
\* matching line, attempt 3 passes on the same instance) the instance has been started once and not
\* destroyed when attempt 1 ends, started once and destroyed once when attempt
\* 2 ends, started twice and destroyed once when attempt 3 ends, and the task
\* then has three Executions, status success and the counter is 0.
C15_RecycleAtAllowedRetests ==
    [][\A t \in Tasks : \A i \in Bound(t) :
          /\ RerunStepOn(t, i) =>
                IF inst[i].retestCounter + 1 = cfg.allowedRetests
                THEN /\ inst'[i].retestCounter = 0
                     /\ IF isDownOr(inst[i].state, {clusterStarting})
                        THEN inst'[i].state = inst[i].state /\ sup'[t].pc = "rerun"
                        ELSE inst'[i].state = clusterStopping
                                 /\ sup'[t].pc = "rerunDestroy"
                ELSE /\ inst'[i].retestCounter = inst[i].retestCounter + 1
                     /\ inst'[i].state = inst[i].state
                     /\ sup'[t].pc = "rerun"
          /\ EmitOf(t) /\ RecycleScenario(t, 1) =>
                env'.starts[i] = 1 /\ env'.destroys[i] = 0
          /\ EmitOf(t) /\ RecycleScenario(t, 2) =>
                env'.starts[i] = 1 /\ env'.destroys[i] = 1
          /\ EmitOf(t) /\ RecycleScenario(t, 3) =>
                /\ env'.starts[i] = 2 /\ env'.destroys[i] = 1
                /\ inst'[i].retestCounter = 0
          /\ RecycleScenario(t, 3) =>
                Len(task'[t].executions) = 3 /\ task'[t].status = StatusSuccess
    ]_vars

\* The scenario has run to its end: three Executions, the last one success, one
\* destroy by the supervisor and two starts, and the run is over.
C15_Witness ==
    \E t \in Tasks : \E i \in Bound(t) :
        /\ cfg.restartCount = 2 /\ cfg.allowedRetests = 2 /\ env.faults = 0
        /\ hist.matched[t] = <<TRUE, TRUE, FALSE>>
        /\ [k \in 1..3 |-> task[t].executions[k].status]
               = <<StatusRerunRequest, StatusRerunRequest, StatusSuccess>>
        /\ task[t].status = StatusSuccess
        /\ env.starts[i] = 2
        /\ main.pc = "done"

RECURSIVE ConcatSuites(_)
\* The sub-tests of the entries of r, one after the other.
ConcatSuites(r) == IF r = <<>> THEN <<>> ELSE Head(r).suite \o ConcatSuites(Tail(r))

\* What C16 says of the children r of the entry test split for n instances
\* with this MinSuiteSize; a slice [lo:hi] of Go is SubSeq(_, lo + 1, hi).
SplitAsClaimed(test, r, n, minSuiteSize) ==
    LET L == Len(test.suite)
        quot == L \div n
        c == IF quot > minSuiteSize THEN quot ELSE minSuiteSize
        lo(k) == (k - 1) * c
        hi(k) == IF k = Len(r) THEN L ELSE k * c
    IN  /\ Len(r) >= 1 /\ Len(r) <= n
        /\ \A k \in 1..Len(r) :
               /\ r[k].name = test.name \o <<k>>
               /\ lo(k) <= L /\ hi(k) <= L /\ lo(k) <= hi(k)
               /\ r[k].suite = SubSeq(test.suite, lo(k) + 1, hi(k))
               /\ k < Len(r) => Len(r[k].suite) = c
        /\ ConcatSuites(r) = test.suite
        /\ \A x \in Range(test.suite) :
               Cardinality({k \in 1..Len(r) : x \in Range(r[k].suite)}) = 1
        /\ (L = 10 /\ n = 3 /\ minSuiteSize = 2) =>
               [k \in 1..Len(r) |-> r[k].suite]
                   = <<SubSeq(test.suite, 1, 3), SubSeq(test.suite, 4, 6),
                       SubSeq(test.suite, 7, 10)>>

\* C16: splitTest of an entry with a suite of L sub-tests for a group of n
\* instances returns between 1 and n children named <name>1, <name>2, ...,
\* whose slices of the suite, one after the other, are the suite; every child
\* but the last has max(L div n, MinSuiteSize) sub-tests, the last has the
\* rest, no slice bound exceeds L, and L = 10, n = 3, MinSuiteSize = 2 gives
\* [0:3], [3:6], [6:10]; an entry without a suite is returned as it is, alone.
\* createTasks makes one task of each child.
C16_SplitTest ==
    \A e \in 1..Len(cfg.entries) : \A g \in 1..Len(cfg.groups) :
        LET test == NewTestEntry(cfg, e)
            r == splitTest(cfg, test, g)
        IN  /\ IF test.hasSuite
               THEN SplitAsClaimed(test, r, cfg.groups[g].n, cfg.minSuiteSize)
               ELSE r = <<test>>
            /\ main.pc # "create" =>
                   /\ Len(task) = Len(r)
                   /\ \A k \in 1..Len(r) :
                          task[k].name = r[k].name /\ task[k].suite = r[k].suite

\* createTasks has split a suite of ten sub-tests for three instances with
\* MinSuiteSize 2 into three tasks, of three, three and four sub-tests.
C16_Witness ==
    /\ main.pc # "create"
    /\ cfg.entries[1].hasSuite /\ Len(cfg.entries[1].suite) = 10
    /\ cfg.groups[1].n = 3 /\ cfg.minSuiteSize = 2
    /\ [k \in 1..Len(task) |-> task[k].suite]
           = <<<<1, 2, 3>>, <<4, 5, 6>>, <<7, 8, 9, 10>>>>
    /\ [k \in 1..Len(task) |-> task[k].name] = <<<<"T1", 1>>, <<"T1", 2>>, <<"T1", 3>>>>

\* The finalized tasks with status failed.
FinalizedFailed == {k \in 1..Len(completed) : task[completed[k]].status = StatusFailed}

\* C17: with FailedTestsLimit = L > 0 the failed-tests count is the number of
\* finalized tasks with status failed; the step that takes it to L pushes an
\* error on the termination channel; and a loop that goes on after the count
\* has reached L ends with an error.
C17_FailedLimitEndsLoop ==
    [][cfg.failedLimit > 0 =>
          /\ failedTestsCount' = Cardinality(FinalizedFailed')
          /\ (failedTestsCount # cfg.failedLimit /\ failedTestsCount' = cfg.failedLimit)
                 => termChan' = Append(termChan, "limit")
          /\ (failedTestsCount = cfg.failedLimit /\ main.pc # "report"
                 /\ main'.pc = "report") => main'.err
    ]_vars

\* The step is the iteration of assignTasks' loop that looks at task t.
AssignRoundOf(t) ==
    /\ main.pc = "iter"
    /\ main.snapshot[main.idx] = t
    /\ main' # main

\* The step passes t to startTask (which returns nil, or an error).
PassedToStartTask(t) ==
    AssignRoundOf(t) /\ (DispatchOf(t) \/ env'.faults = env.faults + 1)

\* The pending tasks that the loop of assignTasks has kept so far, after the
\* step (ctx.tasks itself after the last iteration).
KeptPending == IF main'.pc = "iter" THEN main'.newTasks ELSE queue'

\* The position of task t in the queue the round started from.
SnapshotIndex(t) == CHOOSE k \in 1..Len(main.snapshot) : main.snapshot[k] = t

\* After the step t is the last of the kept pending tasks, behind those kept
\* before it, which all stood before it in the queue.
StaysPendingInOrder(t) ==
    /\ KeptPending = Append(main.newTasks, t)
    /\ \A j \in 1..Len(main.newTasks) : SnapshotIndex(main.newTasks[j]) < main.idx

\* Every group of t has an instance that was ready before the step and is busy
\* after it.
EveryGroupSuppliedReady(t) ==
    \A j \in 1..Len(task[t].clusters) :
        \E i \in Range(GroupInstances(cfg, task[t].clusters[j])) :
            inst[i].state = clusterReady /\ inst'[i].state = clusterBusy

\* The step marks no instance busy.
NoneMarkedBusy == \A i \in Instances : inst'[i].state = clusterBusy => inst[i].state = clusterBusy

\* C18, as stated: a task with more than one group is passed to startTask
\* only in a round where each of its groups supplied a ready instance; in any
\* other round it stays pending, in order, and no instance is marked busy.
C18_MultiClusterDispatch ==
    [][\A t \in Tasks :
          (Len(task[t].clusters) > 1 /\ AssignRoundOf(t)) =>
              IF PassedToStartTask(t) THEN EveryGroupSuppliedReady(t)
              ELSE StaysPendingInOrder(t) /\ NoneMarkedBusy
    ]_vars

\* The step takes t out of the pending tasks as skipped for want of clusters.
SkippedForNoClusters(t) ==
    /\ task'[t].status = StatusSkippedSinceNoClusters
    /\ completed' = Append(completed, t)
    /\ KeptPending = main.newTasks

\* C18, amended: a task with more than one group is passed to startTask only
\* in a round where each of its groups supplied a ready instance.  In a round
\* where one of its groups has no instance that is up or can be started, the
\* task leaves the pending tasks as skipped-no-clusters; a task whose status
\* is skipped is dropped from the pending tasks; in every other round it stays
\* pending, in order.  In the rounds that do not pass it to startTask no
\* instance is marked busy.
C18_MultiClusterDispatchOrSkip ==
    [][\A t \in Tasks :
          (Len(task[t].clusters) > 1 /\ AssignRoundOf(t)) =>
              IF PassedToStartTask(t) THEN EveryGroupSuppliedReady(t)
              ELSE /\ NoneMarkedBusy
                   /\ IF task[t].status = StatusSkipped
                      THEN KeptPending = main.newTasks /\ task'[t] = task[t]
                      ELSE IF selectClustersForTask(t).unavail # <<>>
                      THEN SkippedForNoClusters(t)
                      ELSE StaysPendingInOrder(t)
    ]_vars

\* A task with two different groups is running on one instance of each, both
\* busy, after rounds in which the instances were not yet ready.
C18_Witness ==
    \E t \in Tasks :
        /\ Len(task[t].clusters) = 2
        /\ task[t].clusters[1] # task[t].clusters[2]
        /\ hist.dispatched[t] = 1
        /\ Len(task[t].clusterInstances) = 2
        /\ \A j \in 1..2 :
               task[t].clusterInstances[j] \in Range(GroupInstances(cfg, task[t].clusters[j]))
        /\ \A i \in Bound(t) : inst[i].state = clusterBusy /\ env.starts[i] = 1
        /\ InAttempt(t)

\* C19: the environment prepareEnv returns for the cluster configs c0..c(k-1)
\* of the task's instances: name_i=c_i in order when the ClusterEnv of the
\* execution is not empty and has exactly k names, else KUBECONFIG=c0 and
\* KUBECONFIG<i>=c_i for i = 1..k-1; then, last, ARTIFACTS_DIR=<the most
\* recent artifact directory of the task>; k + 1 entries in all.
C19_PrepareEnv ==
    \A t \in Tasks :
        sup[t].pc = "run" =>
            LET names == cfg.entries[task[t].e].clusterEnv
                k == Len(task[t].clusterInstances)
                c(i) == GetClusterConfig(task[t].clusterInstances[i + 1])
                dirs == task[t].artifactDirectories
                e == sup[t].env
            IN  /\ Len(e) = k + 1
                /\ IF names # <<>> /\ Len(names) = k
                   THEN \A i \in 0..(k - 1) : e[i + 1] = names[i + 1] \o <<"=">> \o c(i)
                   ELSE /\ e[1] = <<"KUBECONFIG", "=">> \o c(0)
                        /\ \A i \in 1..(k - 1) :
                               e[i + 1] = <<"KUBECONFIG", i, "=">> \o c(i)
                /\ e[k + 1] = <<"ARTIFACTS_DIR", "=">> \o dirs[Len(dirs)]
                /\ dirs[Len(dirs)] = AddFolder(task[t].clusterTaskID, task[t].name, Len(dirs))

\* The environment has been prepared for a second attempt on three clusters,
\* the ClusterEnv having two names: KUBECONFIG, KUBECONFIG1, KUBECONFIG2 and
\* the second artifact directory.
C19_Witness ==
    \E t \in Tasks :
        /\ sup[t].pc = "run"
        /\ cfg.entries[task[t].e].clusterEnv = <<<<"X">>, <<"Y">>>>
        /\ Len(task[t].artifactDirectories) = 2
        /\ sup[t].env = << <<"KUBECONFIG", "=", "config", "i1">>,
                           <<"KUBECONFIG", 1, "=", "config", "i2">>,
                           <<"KUBECONFIG", 2, "=", "config", "i3">>,
                           <<"ARTIFACTS_DIR", "=", "dir", "i1", "i2", "i3", "T1", 2>> >>

\* C20, as stated: when the process has ended, its exit code is 1 if a step
\* before the loop failed (the config file could not be read or parsed, the
\* imports failed, the discovery failed), if a test failed, or if the loop
\* ended on the global timeout or a termination request; and it is 0 only if
\* the run finished and every test passed.
C20_ExitCode ==
    main.exit # -1 =>
        /\ (main.cause # "none" \/ main.err
                \/ \E t \in Tasks : task[t].status = StatusFailed) => main.exit = 1
        /\ main.exit = 0 =>
               /\ main.cause = "none" /\ main.pc = "done"
               /\ \A t \in Tasks : task[t].status = StatusSuccess

\* A provider Start of instance i has been asked for and has not returned.
StartInFlight(i) ==
    \E k \in 1..Len(starters[i]) : starters[i][k].pc \in {"inc", "start"}

\* C21: with NoStop false, performShutdown cancels the attempt of every task
\* whose cancel function an instance holds, and when it returns every instance
\* is down (shutdown, crashed or not-available) and no provider Start is in
\* flight.
C21_ShutdownLeavesAllDown ==
    [][/\ (main.pc = "shutdown" /\ main'.pc = "wait") =>
              \A t \in Tasks :
                  (sup[t].pc = "run" /\ \E i \in Instances : inst[i].taskCancel = t)
                      => sup'[t].cancelled
       /\ (main.pc = "wait" /\ main'.pc = "done") =>
              \A i \in Instances :
                  inst'[i].state \in DownStates /\ ~StartInFlight(i)'
    ]_vars


\* ---- C22 ----
\* The files the entries of imports match, in the order of the entries and,
\* within an entry, of the match.
RECURSIVE MatchedFiles(_, _)
MatchedFiles(imps, k) ==
    IF k > Len(imps) THEN <<>>
    ELSE (IF imps[k].exists THEN <<imps[k].file>> ELSE imps[k].files)
             \o MatchedFiles(imps, k + 1)

RECURSIVE ExecutionsOf(_, _)
ExecutionsOf(fs, files) ==
    IF files = <<>> THEN <<>>
    ELSE fs[Head(files)].executions \o ExecutionsOf(fs, Tail(files))

RECURSIVE ProvidersOf(_, _)
ProvidersOf(fs, files) ==
    IF files = <<>> THEN <<>>
    ELSE fs[Head(files)].providers \o ProvidersOf(fs, Tail(files))

Failing(f) == env.files[f].status # "ok"

ValidPatterns(imps) == \A k \in 1..Len(imps) : imps[k].exists \/ ~imps[k].bad

HasPathToReadiness(i) ==
    \/ inst[i].state \in {clusterReady, clusterBusy, clusterStarting, clusterStopping}
    \/ /\ inst[i].state \in {clusterAdded, clusterCrashed}
       /\ inst[i].startCount <= RetryCount(i)

TimesCompleted(t) == Cardinality({k \in 1..Len(completed) : completed[k] = t})

\* C23: a task is marked skipped-no-clusters only at a moment when one of its
\* groups has no instance with a path to readiness; from the marking on it is
\* in the task map of none of its groups, is once in the global completed
\* list, and is not dispatched.
C23_SkippedNoClusters ==
    [][\A t \in Tasks :
          /\ (task[t].status # StatusSkippedSinceNoClusters
                  /\ task'[t].status = StatusSkippedSinceNoClusters) =>
                 \E j \in 1..Len(task[t].clusters) :
                     \A i \in Range(GroupInstances(cfg, task[t].clusters[j])) :
                         ~HasPathToReadiness(i)
          /\ task'[t].status = StatusSkippedSinceNoClusters =>
                 /\ \A j \in 1..Len(task[t].clusters) :
                        \A q \in gtasks'[task[t].clusters[j]] : q[1] # task[t].key
                 /\ TimesCompleted(t)' = 1
                 /\ hist'.dispatched[t] = hist.dispatched[t]
                 /\ t \notin running' \ running
    ]_vars

\* A task has been marked skipped-no-clusters after it was dispatched once,
\* and the scheduler has gone on to the next round.
C23_Witness ==
    \E t \in Tasks :
        /\ task[t].status = StatusSkippedSinceNoClusters
        /\ hist.dispatched[t] >= 1
        /\ main.pc = "usage"


\* ---- C24 ----
\* The edges of the lifecycle diagram.
LifecycleEdges ==
    {<<clusterAdded, clusterStarting>>, <<clusterCrashed, clusterStarting>>,
     <<clusterStarting, clusterReady>>, <<clusterStarting, clusterStopping>>,
     <<clusterReady, clusterBusy>>, <<clusterBusy, clusterReady>>,
     <<clusterReady, clusterStopping>>, <<clusterBusy, clusterStopping>>,
     <<clusterStopping, clusterCrashed>>, <<clusterStopping, clusterShutdown>>,
     <<clusterCrashed, clusterNotAvailable>>}

\* The step is checkClustersUsage and stores stopping (destroyCluster) and then
\* shutdown on instance i.
UsageStops(i) ==
    /\ main.pc = "usage" /\ main' # main
    /\ ~usageSkips(inst[i].state)
    /\ ~destroyReturnsAtOnce(inst[i].state)
    /\ inst'[i].state = clusterShutdown

\* The changes of the state of instance i that the step makes.
StateChanges(i) ==
    IF UsageStops(i)
    THEN {<<inst[i].state, clusterStopping>>, <<clusterStopping, clusterShutdown>>}
             \ {<<clusterStopping, clusterStopping>>}
    ELSE {<<inst[i].state, inst'[i].state>>} \ {<<inst[i].state, inst[i].state>>}

\* C24: every change of the state of an instance is an edge of the lifecycle
\* diagram.
C24_LifecycleEdges ==
    [][\A i \in Instances : StateChanges(i) \subseteq LifecycleEdges]_vars


\* ---- C25 ----
\* C25: shutdown is terminal: an instance whose state is shutdown keeps that
\* state in every step.
C25_ShutdownIsTerminal ==
    [][\A i \in Instances :
          inst[i].state = clusterShutdown => inst'[i].state = clusterShutdown]_vars


\* ---- C26 ----
\* The most instances of a configuration.
MaxInstances == 3

\* C26: an instance does not stay starting for ever, whether the provider's
\* Start fails or succeeds and whether the monitor's first liveness check
\* fails or succeeds: a failed check takes it to crashed through stopping.
C26_NoInstanceStaysStarting ==
    \A i \in 1..MaxInstances :
        (i \in Instances /\ inst[i].state = clusterStarting)
            ~> (i \in Instances /\ inst[i].state # clusterStarting)


\* ---- C27 ----
\* Start and Destroy of a starter of instance i have both failed, and the
\* starter has not yet forced StartCount.
StartAndDestroyFailed(i) ==
    \E k \in 1..Len(starters[i]) : starters[i][k].pc = "force"

\* C27: once Start and the Destroy after it have failed, the instance is not
\* started again and gets no monitor, whatever the scheduler does before the
\* starter forces StartCount: no step spawns a starter for it, none calls
\* Start, and its state stays crashed or becomes not-available.
C27_PermanentFailure ==
    [][\A i \in Instances :
          StartAndDestroyFailed(i) =>
              /\ Len(starters'[i]) = Len(starters[i])
              /\ env'.starts[i] = env.starts[i]
              /\ inst'[i].state \in {clusterCrashed, clusterNotAvailable}
              /\ inst'[i].cancelMonitor = inst[i].cancelMonitor
    ]_vars


\* ---- C28 ----
\* The step is performClusterUpdate for the last cluster-update event of
\* instance i in the channel.
HandlesLastUpdateOf(i) ==
    /\ main.pc = "poll" /\ opChan # <<>>
    /\ Head(opChan) = ClusterEvent(i)
    /\ opChan' = Tail(opChan)
    /\ \A k \in 2..Len(opChan) : opChan[k] # ClusterEvent(i)

\* C28: when instance i has become crashed while the runner of an attempt of
\* task t was running on it with TaskCancel installed, and that runner is
\* still running when the scheduler handles the cluster-update event, the
\* scheduler cancels the context of the attempt - whatever the state of the
\* instance then is.
C28_CrashCancelsAttempt ==
    [][\A i \in Instances : \A t \in Tasks :
          (HandlesLastUpdateOf(i) /\ hist.hit[i] = t /\ inst[i].taskCancel = t
               /\ sup[t].pc = "run")
              => sup'[t].cancelled
    ]_vars


\* ---- C29 ----
\* Task t has been re-queued by rescheduleTask and is pending.
Requeued(t) == t \in Range(queue) /\ hist.dispatched[t] >= 1

\* C29: a task that rescheduleTask has put back in the pending queue stays
\* there until assignTasks passes it to startTask or marks it
\* skipped-no-clusters (or, its status being skipped, ignores it): no step
\* of the warmup goroutine and of assignTasks drops it.
C29_RequeuedTaskIsNotLost ==
    [][\A t \in Tasks :
          Requeued(t) =>
              \/ t \in Range(queue')
              \/ t \in running'
              \/ PassedToStartTask(t)
              \/ task'[t].status = StatusSkippedSinceNoClusters
              \/ AssignRoundOf(t) /\ task[t].status = StatusSkipped
    ]_vars


\* ---- C30 ----
\* Task t was created for an entry whose index in source order (from 0) has
\* reached --count.
BeyondCount(t) == cfg.count > 0 /\ task'[t].e - 1 >= cfg.count

\* C30: with --count = N > 0, createTasks leaves every task of an entry of
\* index >= N with status skipped and out of the pending queue, and queues
\* every task of an entry of index < N; no later step dispatches a task of an
\* entry of index >= N.
C30_CountCap ==
    [][/\ (main.pc = "create" /\ main'.pc = "assign" /\ cfg.count > 0) =>
              \A t \in 1..Len(task') :
                  IF BeyondCount(t)
                  THEN task'[t].status = StatusSkipped /\ t \notin Range(queue')
                  ELSE t \in Range(queue')
       /\ main.pc # "create" =>
              \A t \in 1..Len(task') :
                  BeyondCount(t) => hist'.dispatched[t] = 0 /\ t \notin Range(queue')
    ]_vars


\* ---- C31 ----
\* The tasks that createTasks has bound to group g.
CreatedFor(g) == {t \in 1..Len(task') : g \in Range(task'[t].clusters)}

\* C31: after createTasks the tasks bound to a group have pairwise distinct
\* keys, and the task map of the group holds one entry for each of them.
C31_DistinctKeys ==
    [][(main.pc = "create" /\ main'.pc = "assign") =>
          \A g \in 1..Len(cfg.groups) :
              /\ \A t \in CreatedFor(g) : \A u \in CreatedFor(g) :
                     t # u => task'[t].key # task'[u].key
              /\ Cardinality(gtasks'[g]) = Cardinality(CreatedFor(g))
    ]_vars


\* ---- C32 ----
\* The step is checkClustersUsage and it moves instance i to shutdown.
UsageShutsDown(i) ==
    /\ main.pc = "usage" /\ main'.pc = "poll"
    /\ inst[i].state # clusterShutdown
    /\ inst'[i].state = clusterShutdown

\* The tasks bound to group g that are in the pending queue or in the running
\* map.
UnfinishedOf(g) ==
    {t \in Tasks : g \in Range(task[t].clusters)
                   /\ (t \in Range(queue) \/ t \in running)}

\* C32: checkClustersUsage moves an instance to shutdown only when no task
\* bound to its group is pending or running and the instance is not busy, and
\* a task becomes skipped-no-clusters only when none of the instances of its
\* groups has been shut down.
C32_NoEarlyShutdown ==
    [][/\ \A i \in Instances :
              UsageShutsDown(i) =>
                  /\ UnfinishedOf(GroupOf(cfg, i)) = {}
                  /\ inst[i].state # clusterBusy
       /\ \A t \in Tasks :
              (task[t].status # StatusSkippedSinceNoClusters
                   /\ task'[t].status = StatusSkippedSinceNoClusters) =>
                  \A j \in 1..Len(task[t].clusters) :
                      \A i \in Range(GroupInstances(cfg, task[t].clusters[j])) :
                          inst[i].state # clusterShutdown
    ]_vars


\* ---- C33 ----
\* The step ends an attempt of task t with a status other than rerun-request.
EndsAttempt(t) ==
    /\ sup[t].pc # "idle" /\ sup'[t].pc = "idle"
    /\ Len(task'[t].executions) = Len(task[t].executions) + 1
    /\ task'[t].status # StatusRerunRequest

\* C33: when an attempt ends with a status other than rerun-request, the
\* retest counter of every instance bound to the task is 0.
C33_CounterReset ==
    [][\A t \in Tasks :
          EndsAttempt(t) => \A i \in Bound(t) : inst'[i].retestCounter = 0
    ]_vars


\* ---- C34 ----
\* The step is a failed CheckIsAlive of executeTask on instance i, bound to t.
LivenessFails(t, i) ==
    /\ sup[t].pc = "alive"
    /\ sup[t].k <= Len(task[t].clusterInstances)
    /\ task[t].clusterInstances[sup[t].k] = i
    /\ sup'[t] # sup[t] /\ sup'[t].dead
    /\ env'.faults = env.faults + 1

\* C34: an attempt ends timeout only if the context of the runner was done
\* and a bound instance failed the liveness check after the run; it ends
\* failed after the liveness checks if the runner returned an error and no
\* bound instance failed the check; it ends success only if the runner
\* returned no error; and an instance that fails the check is not left ready
\* or busy.
C34_StatusOfAttempt ==
    [][\A t \in Tasks :
          /\ (EndsAttempt(t) /\ task'[t].status = StatusTimeout) =>
                 sup[t].failed /\ sup[t].done /\ sup[t].dead
          /\ (EndsAttempt(t) /\ sup[t].pc = "alive" /\ sup[t].failed /\ ~sup[t].dead) =>
                 task'[t].status = StatusFailed
          /\ (EndsAttempt(t) /\ task'[t].status = StatusSuccess) =>
                 sup[t].pc = "run" /\ ~sup[t].failed
          /\ \A i \in Instances :
                 LivenessFails(t, i) => inst'[i].state \notin {clusterReady, clusterBusy}
    ]_vars


\* ---- C35 ----
\* The main goroutine is suspended in a send of sendClustersUpdate on the full
\* operation channel.
MainBlockedOnSend == main.pc = "resend"

\* C35: the main goroutine is never suspended in a send on the operation
\* channel.
C35_MainNeverBlocksOnSend == ~MainBlockedOnSend


\* ---- C36 ----
\* The tasks whose completeTask or rescheduleTask the step performs.
Released == running \ running'

\* C36: an instance goes from busy to ready only in the makeInstancesReady of
\* a task that is bound to it and leaves the running map in the same step, and
\* that makeInstancesReady leaves the state of an instance that is not busy
\* as it is.
C36_BusyToReady ==
    [][\A i \in Instances :
          /\ (inst[i].state = clusterBusy /\ inst'[i].state = clusterReady) =>
                 \E t \in Released : i \in Bound(t)
          /\ (inst[i].state # clusterBusy /\ \E t \in Released : i \in Bound(t)) =>
                 inst'[i].state = inst[i].state
    ]_vars


\* ---- C37 ----
\* The main goroutine is in the loop of performExecution.
InLoop == main.pc \in {"assign", "iter", "usage", "poll", "resend"}

\* C37: under fair scheduling the main loop is eventually left (with nothing
\* pending and nothing running, or on a signal, a deadline or a termination
\* error).
C37_LoopExits == <>(~InLoop)


\* ---- C38 ----
\* The main goroutine is between two iterations of the loop, or has just left
\* the loop with nothing pending and nothing running.
IterationBoundary == main.pc \in {"assign", "report"}

\* The number of the three collections (pending queue, running map, completed
\* list) that task t is in.
PlacesOf(t) ==
    (IF t \in Range(queue) THEN 1 ELSE 0)
        + (IF t \in running THEN 1 ELSE 0)
        + (IF t \in Range(completed) THEN 1 ELSE 0)

\* Task t was skipped at creation: it is beyond the count limit, or its test
\* was found with status skipped.
SkippedAtCreation(t) ==
    \/ t \in Range(skipped)
    \/ task[t].status = StatusSkipped /\ task[t].executions = <<>>

\* C38: at every iteration boundary each task that was not skipped at
\* creation is in exactly one of the pending queue, the running map and the
\* completed list, and is at most once in the completed list.
C38_TaskConservation ==
    IterationBoundary =>
        \A t \in Tasks :
            ~SkippedAtCreation(t) => PlacesOf(t) = 1 /\ TimesCompleted(t) <= 1


\* ---- C39 ----
\* The step passes t to startTask, which returns an error.
StartTaskFails(t) == PassedToStartTask(t) /\ ~DispatchOf(t)

\* C39: when startTask returns an error no instance is left busy that was not
\* busy before, no supervisor is spawned, and the task is kept pending or is
\* recorded as completed.
C39_FailedStartTask ==
    [][\A t \in Tasks :
          StartTaskFails(t) =>
              /\ \A i \in Instances :
                     inst'[i].state = clusterBusy => inst[i].state = clusterBusy
              /\ sup'[t].pc = "idle"
              /\ t \notin running'
              /\ t \in Range(KeptPending) \/ t \in Range(completed')
    ]_vars


\* ---- C40 ----
\* The step is executeTask of task t up to the call of the runner.
RunnerInvoked(t) == sup[t].pc = "pre" /\ sup'[t].pc = "run"

\* C40: when the runner of a task is invoked every bound instance has the
\* task's execution as its running execution, and the Before hook of that
\* execution has run on the instance since the provider's Start last returned
\* nil for it.
C40_HookScoping ==
    [][\A t \in Tasks :
          RunnerInvoked(t) =>
              \A i \in Bound(t) :
                  /\ inst'[i].runningExecution = ExecutionOf(t)
                  /\ hist'.before[i] = ExecutionOf(t)
    ]_vars

====
